---- MODULE Spec2Model ----
(***************************************************************************)
(* Back2work-bot: the priority engine of src/app/priority_engine.py.       *)
(*                                                                         *)
(* Python strings are TLA+ strings; a character is a string of length 1.   *)
(* The alphabet is ASCII, on which unicodedata.normalize("NFKD", .) is the *)
(* identity and no character is a combining mark.                          *)
(***************************************************************************)
EXTENDS Integers, Sequences, FiniteSets, TLC

VARIABLES
    pc,         \* position of the modelled caller
    nk_in,      \* argument s of _proj_norm_key_raw
    nk_out,     \* _proj_norm_key_raw(s)
    nk_out2,    \* _proj_norm_key_raw applied to its own result
    project_values, \* argument of build_project_canonical_map: <<>> is None, <<s>> the value s
    counts,     \* counts: stripped name -> occurrences
    uniques,    \* the names sorted by (-count, len)
    clusters,   \* sequence of [key, members, repr]
    ui,         \* position of the clustering loop in uniques
    ci,         \* position of the canonical-name loop in clusters
    mapping,    \* the map being built
    pass,       \* which build this is: 1 the batch, 2 the batch rewritten by the map of 1
    prev_map,   \* the map the batch was last rewritten with
    analysis,   \* argument data of calculate_priority_score: the analysis of one email
    imp,        \* argument importance
    subj,       \* argument subject
    clock,      \* pd.Timestamp.now(), in ticks
    t_first,    \* the instant of the first call
    score1,     \* result of the first call
    score2,     \* result of a second call with the same arguments
    call,       \* the arguments of a call of map_to_priority
    priority,   \* what the call returned
    ka,         \* argument a_key of _projects_similar
    kb,         \* argument b_key
    oa,         \* argument a_orig
    ob,         \* argument b_orig
    sim_ab,     \* _projects_similar(a_key, b_key, a_orig, b_orig)
    sim_ba,     \* _projects_similar(b_key, a_key, b_orig, a_orig)
    emails,     \* the rows of df_proc the main loop has read
    ei,         \* position of the main loop in emails
    llm_calls,  \* llm_calls of main
    rows,       \* rows of main: one record per analysed email
    result_df,  \* st.session_state.result_df
    log         \* history: for each analysed email, llm_calls before and after and who analysed it

normVars == <<nk_in, nk_out, nk_out2>>
projVars == <<project_values, counts, uniques, clusters, ui, ci, mapping, pass, prev_map>>
scoreVars == <<analysis, imp, subj, clock, t_first, score1, score2>>
prioVars == <<call, priority>>
simVars == <<ka, kb, oa, ob, sim_ab, sim_ba>>
mainVars == <<emails, ei, llm_calls, rows, result_df, log>>
vars == <<pc, nk_in, nk_out, nk_out2, project_values, counts, uniques, clusters, ui, ci,
          mapping, pass, prev_map, analysis, imp, subj, clock, t_first, score1, score2,
          call, priority, ka, kb, oa, ob, sim_ab, sim_ba,
          emails, ei, llm_calls, rows, result_df, log>>

-----------------------------------------------------------------------------
(* The parts of the state a specification does not use stay at these values *)

EmptyMap == [k \in {} |-> ""]

NormIdle == nk_in = "" /\ nk_out = "" /\ nk_out2 = ""

ProjIdle ==
    /\ project_values = <<>> /\ counts = EmptyMap /\ uniques = <<>> /\ clusters = <<>>
    /\ ui = 1 /\ ci = 1 /\ mapping = EmptyMap /\ pass = 1 /\ prev_map = EmptyMap

ScoreIdle ==
    /\ analysis = EmptyMap /\ imp = "" /\ subj = ""
    /\ clock = 0 /\ t_first = 0 /\ score1 = 0 /\ score2 = 0

PrioIdle == call = EmptyMap /\ priority = ""

SimIdle == ka = "" /\ kb = "" /\ oa = "" /\ ob = "" /\ sim_ab = FALSE /\ sim_ba = FALSE

MainIdle ==
    /\ emails = <<>> /\ ei = 1 /\ llm_calls = 0
    /\ rows = <<>> /\ result_df = <<>> /\ log = <<>>

-----------------------------------------------------------------------------
(* Python str primitives                                                   *)

LOWER == "abcdefghijklmnopqrstuvwxyz"
UPPER == "ABCDEFGHIJKLMNOPQRSTUVWXYZ"
DIGITS == "0123456789"

CharAt(s, i) == SubSeq(s, i, i)
CharsOf(s) == {CharAt(s, i) : i \in 1..Len(s)}

LowerChars == CharsOf(LOWER)
UpperChars == CharsOf(UPPER)
DigitChars == CharsOf(DIGITS)

\* str.lower() on one character
ToLowerTable ==
    [c \in UpperChars |-> CharAt(LOWER, CHOOSE i \in 1..26 : CharAt(UPPER, i) = c)]
ToUpperTable ==
    [c \in LowerChars |-> CharAt(UPPER, CHOOSE i \in 1..26 : CharAt(LOWER, i) = c)]
LowerChar(c) == IF c \in UpperChars THEN ToLowerTable[c] ELSE c
UpperChar(c) == IF c \in LowerChars THEN ToUpperTable[c] ELSE c

\* \s of the re module, and the whitespace of str.strip()/str.split()
IsSpace(c) == c \in {" ", "\t", "\n"}

RECURSIVE str_lower(_)
str_lower(s) ==
    IF s = "" THEN "" ELSE LowerChar(Head(s)) \o str_lower(Tail(s))

RECURSIVE str_lstrip(_)
str_lstrip(s) ==
    IF s # "" /\ IsSpace(Head(s)) THEN str_lstrip(Tail(s)) ELSE s

RECURSIVE str_rstrip(_)
str_rstrip(s) ==
    IF s # "" /\ IsSpace(CharAt(s, Len(s)))
    THEN str_rstrip(SubSeq(s, 1, Len(s) - 1))
    ELSE s

str_strip(s) == str_rstrip(str_lstrip(s))

str_startswith(s, p) == Len(p) <= Len(s) /\ SubSeq(s, 1, Len(p)) = p

\* `needle in hay`
str_contains(hay, needle) ==
    \E i \in 1..(Len(hay) - Len(needle) + 1) :
        SubSeq(hay, i, i + Len(needle) - 1) = needle

\* any(kw in text for kw in kws), kws a sequence of strings
any_in(kws, text) == \E k \in 1..Len(kws) : str_contains(text, kws[k])

\* str.split(): the maximal runs of non-whitespace, in order
RECURSIVE str_split_from(_, _)
str_split_from(s, cur) ==
    IF s = "" THEN (IF cur = "" THEN <<>> ELSE <<cur>>)
    ELSE IF IsSpace(Head(s))
         THEN (IF cur = "" THEN <<>> ELSE <<cur>>) \o str_split_from(Tail(s), "")
         ELSE str_split_from(Tail(s), cur \o Head(s))
str_split(s) == str_split_from(s, "")

\* " ".join(toks)
RECURSIVE str_join(_)
str_join(toks) ==
    IF toks = <<>> THEN ""
    ELSE IF Len(toks) = 1 THEN toks[1]
    ELSE toks[1] \o " " \o str_join(Tail(toks))

\* str.isalpha(), str.isupper(), str.islower(), str.capitalize()
IsLetter(c) == c \in LowerChars \/ c \in UpperChars
str_isalpha(s) == s # "" /\ \A i \in 1..Len(s) : IsLetter(CharAt(s, i))
str_isupper(s) ==
    /\ \E i \in 1..Len(s) : CharAt(s, i) \in UpperChars
    /\ \A i \in 1..Len(s) : CharAt(s, i) \notin LowerChars
str_islower(s) ==
    /\ \E i \in 1..Len(s) : CharAt(s, i) \in LowerChars
    /\ \A i \in 1..Len(s) : CharAt(s, i) \notin UpperChars
str_capitalize(s) ==
    IF s = "" THEN "" ELSE UpperChar(Head(s)) \o str_lower(Tail(s))

-----------------------------------------------------------------------------
(* Project name unification: normalisation                                 *)

\* The alternatives of _PROJECT_PREFIX_RE in the order the regex tries them
\* (proj\.? and proy\.? are greedy: with the dot first).
PROJECT_PREFIX_WORDS == <<"proyecto", "project", "proj.", "proj", "proy.", "proy">>

_GENERIC_TAIL_TOKENS == {"implementation", "implementacion", "impl"}
_GENERIC_HEAD_TOKENS == {"implementation", "implementacion", "impl"}
_PROJECT_STOPWORDS == {"de", "del", "la", "el", "los", "las", "of", "the", "and", "y"}

\* Whether alternative w followed by \s+ matches at the start of s (re.I)
PrefixAltMatches(s, w) ==
    /\ Len(s) > Len(w)
    /\ str_lower(SubSeq(s, 1, Len(w))) = w
    /\ IsSpace(CharAt(s, Len(w) + 1))

\* _PROJECT_PREFIX_RE.match(s) is not None
_PROJECT_PREFIX_RE_match(s) ==
    \E k \in 1..Len(PROJECT_PREFIX_WORDS) : PrefixAltMatches(s, PROJECT_PREFIX_WORDS[k])

\* _PROJECT_PREFIX_RE.sub("", s): the pattern is anchored, so at most the one
\* match at the start goes, with all the whitespace that follows the word.
_PROJECT_PREFIX_RE_sub(s) ==
    IF _PROJECT_PREFIX_RE_match(s)
    THEN LET k == CHOOSE k \in 1..Len(PROJECT_PREFIX_WORDS) :
                    /\ PrefixAltMatches(s, PROJECT_PREFIX_WORDS[k])
                    /\ \A j \in 1..(k - 1) : ~PrefixAltMatches(s, PROJECT_PREFIX_WORDS[j])
         IN  str_lstrip(SubSeq(s, Len(PROJECT_PREFIX_WORDS[k]) + 1, Len(s)))
    ELSE s

\* re.sub(r"[^a-z0-9\s]+", " ", s): each maximal run of other characters
\* becomes one space
IsKeyChar(c) == c \in LowerChars \/ c \in DigitChars \/ IsSpace(c)
RECURSIVE sub_non_alnum(_, _)
sub_non_alnum(s, inRun) ==
    IF s = "" THEN ""
    ELSE IF IsKeyChar(Head(s))
         THEN Head(s) \o sub_non_alnum(Tail(s), FALSE)
         ELSE (IF inRun THEN "" ELSE " ") \o sub_non_alnum(Tail(s), TRUE)

\* re.sub(r"\s+", " ", s)
RECURSIVE sub_spaces(_, _)
sub_spaces(s, inRun) ==
    IF s = "" THEN ""
    ELSE IF IsSpace(Head(s))
         THEN (IF inRun THEN "" ELSE " ") \o sub_spaces(Tail(s), TRUE)
         ELSE Head(s) \o sub_spaces(Tail(s), FALSE)

\* NFKD decomposition with the combining marks dropped
nfkd_fold(s) == s

_proj_norm_key_raw(s0) ==
    LET s1 == str_strip(s0) IN
    IF s1 = "" THEN ""
    ELSE LET s2 == str_strip(_PROJECT_PREFIX_RE_sub(s1))
             s3 == nfkd_fold(str_lower(s2))
             s4 == sub_non_alnum(s3, FALSE)
         IN  str_strip(sub_spaces(s4, FALSE))

RECURSIVE drop_stopwords(_)
drop_stopwords(toks) ==
    IF toks # <<>> /\ toks[1] \in _PROJECT_STOPWORDS
    THEN drop_stopwords(Tail(toks))
    ELSE toks

RECURSIVE strip_head_toks(_)
strip_head_toks(toks) ==
    IF toks # <<>> /\ toks[1] \in _GENERIC_HEAD_TOKENS
    THEN strip_head_toks(drop_stopwords(Tail(toks)))
    ELSE toks

_strip_generic_head_tokens(norm_key) ==
    IF norm_key = "" THEN ""
    ELSE str_strip(str_join(strip_head_toks(str_split(norm_key))))

RECURSIVE strip_tail_toks(_)
strip_tail_toks(toks) ==
    IF toks # <<>> /\ toks[Len(toks)] \in _GENERIC_TAIL_TOKENS
    THEN strip_tail_toks(SubSeq(toks, 1, Len(toks) - 1))
    ELSE toks

_strip_generic_tail_tokens(norm_key) ==
    IF norm_key = "" THEN ""
    ELSE str_strip(str_join(strip_tail_toks(str_split(norm_key))))

_proj_norm_key(s) ==
    _strip_generic_tail_tokens(_strip_generic_head_tokens(_proj_norm_key_raw(s)))

_proj_display_name(s0) ==
    LET s1 == str_strip(s0) IN
    IF s1 = "" THEN ""
    ELSE str_strip(sub_spaces(str_strip(_PROJECT_PREFIX_RE_sub(s1)), FALSE))

_is_abbrev_orig(orig) ==
    LET disp == _proj_display_name(orig) IN
    disp # "" /\ str_isalpha(disp) /\ str_isupper(disp) /\ 1 <= Len(disp) /\ Len(disp) <= 3

-----------------------------------------------------------------------------
(* Project name unification: similarity                                    *)

\* Length of the common run of a[i..ahi] and b[j..bhi] starting at i and j
RECURSIVE match_len(_, _, _, _, _, _)
match_len(a, b, i, j, ahi, bhi) ==
    IF i > ahi \/ j > bhi \/ CharAt(a, i) # CharAt(b, j) THEN 0
    ELSE 1 + match_len(a, b, i + 1, j + 1, ahi, bhi)

\* difflib.SequenceMatcher.find_longest_match without junk: the longest
\* block; among the longest the one that starts earliest in a, then in b.
find_longest_match(a, b, alo, ahi, blo, bhi) ==
    LET cands == (alo..ahi) \X (blo..bhi)
        L == [p \in cands |-> match_len(a, b, p[1], p[2], ahi, bhi)]
        k == CHOOSE n \in 0..Len(a) :
                 /\ \A p \in cands : L[p] <= n
                 /\ (n = 0 \/ \E p \in cands : L[p] = n)
        i == CHOOSE x \in alo..ahi :
                 /\ \E y \in blo..bhi : L[<<x, y>>] = k
                 /\ \A x2 \in alo..(x - 1) : \A y \in blo..bhi : L[<<x2, y>>] # k
        j == CHOOSE y \in blo..bhi :
                 /\ L[<<i, y>>] = k
                 /\ \A y2 \in blo..(y - 1) : L[<<i, y2>>] # k
    IN  [i |-> i, j |-> j, size |-> k]

\* Sum of the sizes of SequenceMatcher.get_matching_blocks()
RECURSIVE matching_total(_, _, _, _, _, _)
matching_total(a, b, alo, ahi, blo, bhi) ==
    IF alo > ahi \/ blo > bhi THEN 0
    ELSE LET m == find_longest_match(a, b, alo, ahi, blo, bhi) IN
         IF m.size = 0 THEN 0
         ELSE m.size
              + matching_total(a, b, alo, m.i - 1, blo, m.j - 1)
              + matching_total(a, b, m.i + m.size, ahi, m.j + m.size, bhi)

\* SequenceMatcher(None, a, b).ratio() >= pct/100, ratio = 2.0*M/T
ratio_ge(a, b, pct) ==
    LET T == Len(a) + Len(b)
        M == matching_total(a, b, 1, Len(a), 1, Len(b))
    IN  IF T = 0 THEN TRUE ELSE 2 * M * 100 >= pct * T

Min2(x, y) == IF x <= y THEN x ELSE y
Max2(x, y) == IF x >= y THEN x ELSE y

\* The abbreviation rule for abbreviation x against the full name y
abbrev_matches(x_key, y_key) ==
    \/ str_startswith(y_key, x_key \o " ")
    \/ (str_startswith(y_key, x_key) /\ str_isalpha(y_key) /\ Len(y_key) >= 4)
    \/ (str_split(y_key) # <<>> /\ str_split(y_key)[1] = x_key /\ Len(x_key) <= 4)

_projects_similar(a_key, b_key, a_orig, b_orig) ==
    IF a_key = "" \/ b_key = "" THEN FALSE
    ELSE IF a_key = b_key THEN TRUE
    ELSE IF ratio_ge(a_key, b_key, 88) THEN TRUE
    ELSE IF (str_contains(b_key, a_key) \/ str_contains(a_key, b_key))
            /\ Min2(Len(a_key), Len(b_key)) >= 4 THEN TRUE
    ELSE IF Max2(Len(a_key), Len(b_key)) <= 12
            /\ SubSeq(a_key, 1, Min2(3, Len(a_key))) = SubSeq(b_key, 1, Min2(3, Len(b_key)))
            /\ ratio_ge(a_key, b_key, 80) THEN TRUE
    ELSE IF _is_abbrev_orig(a_orig) /\ Len(a_key) <= 3 /\ abbrev_matches(a_key, b_key) THEN TRUE
    ELSE IF _is_abbrev_orig(b_orig) /\ Len(b_key) <= 3 /\ abbrev_matches(b_key, a_key) THEN TRUE
    ELSE FALSE

-----------------------------------------------------------------------------
(* Project name unification: build_project_canonical_map                   *)

PyNone == <<>>
PyStr(s) == <<s>>

\* str(v).strip() of a value that is not None
stripped(v) == str_strip(v[1])

\* `not s or s.lower() in ("none", "nan", "null")`
is_null_like(s) == s = "" \/ str_lower(s) \in {"none", "nan", "null"}

\* The keys of counts in insertion order: the first occurrences of the kept values
RECURSIVE count_keys(_, _)
count_keys(values, seen) ==
    IF values = <<>> THEN <<>>
    ELSE LET v == values[1] IN
         IF v = PyNone \/ is_null_like(stripped(v)) \/ stripped(v) \in seen
         THEN count_keys(Tail(values), seen)
         ELSE <<stripped(v)>> \o count_keys(Tail(values), seen \cup {stripped(v)})

\* The loop of lines 150-157
count_values(values) ==
    LET keys == count_keys(values, {})
        keyset == {keys[i] : i \in 1..Len(keys)}
    IN  [k \in keyset |->
            Cardinality({i \in 1..Len(values) :
                            values[i] # PyNone /\ stripped(values[i]) = k})]

\* sort_before that compares the lengths only
sort_before_by_length(cnt, x, y) == Len(x) < Len(y)

\* The sort key (-counts[x], len(x)) compared
sort_before(cnt, x, y) ==
    cnt[x] > cnt[y] \/ (cnt[x] = cnt[y] /\ Len(x) < Len(y))

\* sorted() is stable: x goes behind every element that does not sort after it
RECURSIVE sorted_insert(_, _, _)
sorted_insert(cnt, srt, x) ==
    IF srt = <<>> THEN <<x>>
    ELSE IF sort_before(cnt, x, srt[1]) THEN <<x>> \o srt
    ELSE <<srt[1]>> \o sorted_insert(cnt, Tail(srt), x)

RECURSIVE sorted_keys(_, _)
sorted_keys(cnt, keys) ==
    IF keys = <<>> THEN <<>>
    ELSE sorted_insert(cnt, sorted_keys(cnt, SubSeq(keys, 1, Len(keys) - 1)), keys[Len(keys)])

\* first_similar that takes the last similar cluster instead of the first
last_similar(cls, key, orig) ==
    IF \E c \in 1..Len(cls) : _projects_similar(key, cls[c].key, orig, cls[c].repr)
    THEN CHOOSE c \in 1..Len(cls) :
            /\ _projects_similar(key, cls[c].key, orig, cls[c].repr)
            /\ \A d \in (c + 1)..Len(cls) : ~_projects_similar(key, cls[d].key, orig, cls[d].repr)
    ELSE 0

\* Index of the first cluster similar to (key, orig), 0 when there is none
first_similar(cls, key, orig) ==
    IF \E c \in 1..Len(cls) : _projects_similar(key, cls[c].key, orig, cls[c].repr)
    THEN CHOOSE c \in 1..Len(cls) :
            /\ _projects_similar(key, cls[c].key, orig, cls[c].repr)
            /\ \A d \in 1..(c - 1) : ~_projects_similar(key, cls[d].key, orig, cls[d].repr)
    ELSE 0

\* cluster_one with the append of line 174 lost
cluster_one_drops_member(cls, orig) ==
    LET key == _proj_norm_key(orig)
        c == first_similar(cls, key, orig)
    IN  IF key = "" \/ c # 0 THEN cls
        ELSE Append(cls, [key |-> key, members |-> <<orig>>, repr |-> orig])

\* One iteration of the loop of lines 167-178
cluster_one(cls, orig) ==
    LET key == _proj_norm_key(orig)
        c == first_similar(cls, key, orig)
    IN  IF key = "" THEN cls
        ELSE IF c # 0
             THEN [cls EXCEPT ![c].members = Append(@, orig)]
             ELSE Append(cls, [key |-> key, members |-> <<orig>>, repr |-> orig])

_cand_score(cnt, cand) ==
    LET freq == IF cand \in DOMAIN cnt THEN cnt[cand] ELSE 1
        disp == _proj_display_name(cand)
        prefix_pen == IF _PROJECT_PREFIX_RE_match(str_strip(cand)) THEN 1 ELSE 0
        length_pen == IF disp # "" THEN Len(disp) ELSE Len(cand)
        raw_key == _proj_norm_key_raw(cand)
        stripped_key == _strip_generic_tail_tokens(raw_key)
        tail_pen == IF raw_key # "" /\ stripped_key # "" /\ raw_key # stripped_key
                    THEN 1 ELSE 0
    IN  freq * 100 - prefix_pen * 20 - tail_pen * 25 - length_pen

\* max(members, key=_cand_score): the first member with the highest score
best_member(cnt, members) ==
    members[CHOOSE i \in 1..Len(members) :
                /\ \A j \in 1..Len(members) :
                       _cand_score(cnt, members[j]) <= _cand_score(cnt, members[i])
                /\ \A j \in 1..(i - 1) :
                       _cand_score(cnt, members[j]) < _cand_score(cnt, members[i])]

\* canonical_name that labels the cluster with the best member as written
canonical_name_raw_best(cnt, members) ==
    LET canon == str_strip(best_member(cnt, members)) IN
    IF str_islower(canon) THEN str_capitalize(canon) ELSE canon

\* Lines 197-200
canonical_name(cnt, members) ==
    LET best == best_member(cnt, members)
        canon == IF _proj_display_name(best) # "" THEN _proj_display_name(best)
                 ELSE str_strip(best)
    IN  IF str_islower(canon) THEN str_capitalize(canon) ELSE canon

\* map_members that gives the label to the first member only
map_members_first_only(m, members, canon) ==
    [k \in DOMAIN m \cup {members[1]} |-> IF k = members[1] THEN canon ELSE m[k]]

\* mapping[m] = canon for every member m
map_members(m, members, canon) ==
    LET ms == {members[i] : i \in 1..Len(members)} IN
    [k \in DOMAIN m \cup ms |-> IF k \in ms THEN canon ELSE m[k]]

\* _apply of unify_projects_in_df
unify_apply(proj_map, v) ==
    IF v = PyNone THEN "None"
    ELSE IF is_null_like(stripped(v)) THEN "None"
    ELSE IF stripped(v) \in DOMAIN proj_map THEN proj_map[stripped(v)]
    ELSE stripped(v)

\* How many times the batch is unified
MaxPass == 2
\* Longest batch of project values
MaxBatch == 3

NamePool ==
    { PyStr("Proyecto Alpha"), PyStr("ALPHA"), PyStr("proyecto alpha"),
      PyStr("Alpha Implementation"), PyStr(" Alpha"),
      PyStr("Proy Beta"), PyStr("Beta Gamma"), PyStr("Proj Gamma"),
      PyStr("Impl"), PyStr(" NaN "), PyNone }

\* The batch of the documented example: frequencies 3, 2, 1, 1
AlphaExample ==
    << PyStr("Alpha Implementation"), PyStr("ALPHA"), PyStr("Proyecto Alpha"),
       PyStr("proyecto alpha"), PyStr("Proyecto Alpha"), PyStr("ALPHA"),
       PyStr("Proyecto Alpha") >>

Batches ==
    UNION {[1..n -> NamePool] : n \in 0..MaxBatch} \cup {AlphaExample}

ProjInit ==
    /\ pc = "proj_start"
    /\ project_values \in Batches
    /\ counts = EmptyMap
    /\ uniques = <<>>
    /\ clusters = <<>>
    /\ ui = 1
    /\ ci = 1
    /\ mapping = EmptyMap
    /\ pass = 1
    /\ prev_map = EmptyMap
    /\ NormIdle /\ ScoreIdle /\ PrioIdle /\ SimIdle /\ MainIdle

\* Lines 150-163: count, return {} on an empty count, sort
BuildCounts ==
    /\ pc = "proj_start"
    /\ LET cnt == count_values(project_values) IN
       /\ counts' = cnt
       /\ uniques' = sorted_keys(cnt, count_keys(project_values, {}))
       /\ pc' = IF DOMAIN cnt = {} THEN "proj_done" ELSE "proj_cluster"
    /\ clusters' = <<>>
    /\ ui' = 1
    /\ ci' = 1
    /\ mapping' = EmptyMap
    /\ UNCHANGED <<project_values, pass, prev_map, normVars, scoreVars, prioVars, simVars, mainVars>>

\* Lines 167-178: one name is placed
ClusterStep ==
    /\ pc = "proj_cluster"
    /\ ui <= Len(uniques)
    /\ clusters' = cluster_one(clusters, uniques[ui])
    /\ ui' = ui + 1
    /\ UNCHANGED <<pc, project_values, counts, uniques, ci, mapping, pass, prev_map, normVars, scoreVars, prioVars, simVars, mainVars>>

\* The clustering loop ends
ClusterEnd ==
    /\ pc = "proj_cluster"
    /\ ui > Len(uniques)
    /\ pc' = "proj_choose"
    /\ UNCHANGED <<projVars, normVars, scoreVars, prioVars, simVars, mainVars>>

\* Lines 182-203: one cluster gets its canonical name
ChooseStep ==
    /\ pc = "proj_choose"
    /\ ci <= Len(clusters)
    /\ mapping' = map_members(mapping, clusters[ci].members,
                              canonical_name(counts, clusters[ci].members))
    /\ ci' = ci + 1
    /\ UNCHANGED <<pc, project_values, counts, uniques, clusters, ui, pass, prev_map, normVars, scoreVars, prioVars, simVars, mainVars>>

\* Line 205
ReturnMap ==
    /\ pc = "proj_choose"
    /\ ci > Len(clusters)
    /\ pc' = "proj_done"
    /\ UNCHANGED <<projVars, normVars, scoreVars, prioVars, simVars, mainVars>>

\* unify_projects_in_df rewrites the batch with the map (lines 222-235); the
\* rewritten batch is unified again.
Reunify ==
    /\ pc = "proj_done"
    /\ pass < MaxPass
    /\ DOMAIN mapping # {}
    /\ project_values' =
           [i \in 1..Len(project_values) |-> PyStr(unify_apply(mapping, project_values[i]))]
    /\ prev_map' = mapping
    /\ pass' = pass + 1
    /\ pc' = "proj_start"
    /\ UNCHANGED <<counts, uniques, clusters, ui, ci, mapping, normVars, scoreVars, prioVars, simVars, mainVars>>

ProjNext ==
    \/ BuildCounts
    \/ ClusterStep
    \/ ClusterEnd
    \/ ChooseStep
    \/ ReturnMap
    \/ Reunify

SpecProj == ProjInit /\ [][ProjNext]_vars

-----------------------------------------------------------------------------
(* Properties of build_project_canonical_map                               *)

\* The distinct trimmed values of the batch that are not null-like
kept_values ==
    {stripped(project_values[i]) :
        i \in {j \in 1..Len(project_values) :
                 project_values[j] # PyNone /\ ~is_null_like(stripped(project_values[j]))}}

map_built == pc = "proj_done"

\* C4 (as claimed): the map built from a batch rewritten by its own map sends
\* every key to itself.
C4_Idempotent ==
    (map_built /\ pass = 2) => \A k \in DOMAIN mapping : mapping[k] = k

claimed_score(cand) ==
    counts[cand] * 100
    - 20 * (IF _PROJECT_PREFIX_RE_match(cand) THEN 1 ELSE 0)
    - 25 * (IF _strip_generic_tail_tokens(_proj_norm_key_raw(cand)) # _proj_norm_key_raw(cand)
            THEN 1 ELSE 0)
    - Len(_proj_display_name(cand))

AlphaVariants == {"Proyecto Alpha", "ALPHA", "proyecto alpha", "Alpha Implementation", "Alpha"}

\* C10: names that differ only by case, project prefix or generic tail form
\* one cluster, and all of them map to the display form of a member with the
\* highest score; in the documented example that label is "Alpha".
C10_AlphaCollapses ==
    (map_built /\ pass = 1 /\ kept_values # {} /\ kept_values \subseteq AlphaVariants) =>
        /\ Len(clusters) = 1
        /\ DOMAIN mapping = kept_values
        /\ \E b \in kept_values :
              /\ \A m \in kept_values : claimed_score(m) <= claimed_score(b)
              /\ \A k \in kept_values :
                    mapping[k] = IF str_islower(_proj_display_name(b))
                                 THEN str_capitalize(_proj_display_name(b))
                                 ELSE _proj_display_name(b)
        /\ (project_values = AlphaExample =>
               /\ kept_values =
                    {"Proyecto Alpha", "ALPHA", "proyecto alpha", "Alpha Implementation"}
               /\ \A k \in kept_values : mapping[k] = "Alpha")

\* C10 witness: the map of the documented example is finished
C10_Witness ==
    /\ map_built /\ pass = 1
    /\ project_values = AlphaExample
    /\ counts["Proyecto Alpha"] = 3 /\ counts["ALPHA"] = 2
    /\ counts["proyecto alpha"] = 1 /\ counts["Alpha Implementation"] = 1
    /\ mapping["ALPHA"] = "Alpha"

\* Whether the value v of the column has no entry in the map
absent_from(proj_map, v) == v = PyNone \/ stripped(v) \notin DOMAIN proj_map

\* C11 (as claimed): rewriting the batch with the map leaves every value that
\* is absent from the map (a null-like value, a name that was never clustered)
\* exactly as it was.
C11_AbsentValuesUnchanged ==
    [][Reunify =>
          \A i \in 1..Len(project_values) :
              absent_from(mapping, project_values[i])
                  => project_values'[i] = project_values[i]]_vars

\* The label the display form of the name b gives
display_label(b) ==
    IF str_islower(_proj_display_name(b)) THEN str_capitalize(_proj_display_name(b))
    ELSE _proj_display_name(b)

\* C13: in the returned map all members of a cluster have the same label, and
\* that label is the display form, capitalised when it is all lower-case, of
\* a member of that cluster.
C13_ClusterSharesMemberLabel ==
    map_built =>
        \A c \in 1..Len(clusters) :
            \E b \in 1..Len(clusters[c].members) :
                \A m \in 1..Len(clusters[c].members) :
                    /\ clusters[c].members[m] \in DOMAIN mapping
                    /\ mapping[clusters[c].members[m]] = display_label(clusters[c].members[b])

\* C13 witness: a cluster of two names whose best member has a lower-case
\* display form, so that the shared label is written like neither of them
C13_Witness ==
    /\ map_built /\ pass = 1
    /\ Len(clusters) = 1
    /\ clusters[1].members = <<"proyecto alpha", "Alpha Implementation">>
    /\ _proj_display_name(best_member(counts, clusters[1].members)) = "alpha"
    /\ mapping["proyecto alpha"] = "Alpha"
    /\ mapping["Alpha Implementation"] = "Alpha"

\* The clusters of cls that hold the name
holders(cls, name) ==
    {c \in 1..Len(cls) : \E m \in 1..Len(cls[c].members) : cls[c].members[m] = name}

\* The clusters whose first-ever member is similar to the name
similar_anchors(cls, name) ==
    {c \in 1..Len(cls) :
        _projects_similar(_proj_norm_key(name), _proj_norm_key(cls[c].members[1]),
                          name, cls[c].members[1])}

\* The step leaves every existing cluster its key, its original and its
\* members so far, and every cluster is represented by its first-ever member
anchors_stable ==
    /\ Len(clusters') >= Len(clusters)
    /\ \A c \in 1..Len(clusters) :
          /\ clusters'[c].key = clusters[c].key
          /\ clusters'[c].repr = clusters[c].repr
          /\ Len(clusters'[c].members) >= Len(clusters[c].members)
          /\ SubSeq(clusters'[c].members, 1, Len(clusters[c].members)) = clusters[c].members
    /\ \A c \in 1..Len(clusters') :
          /\ clusters'[c].repr = clusters'[c].members[1]
          /\ clusters'[c].key = _proj_norm_key(clusters'[c].members[1])

\* The step puts the name in exactly one cluster: the first whose first-ever
\* member is similar to it, or else a new one
placed_in_first_similar(name) ==
    /\ Cardinality(holders(clusters', name)) = 1
    /\ IF similar_anchors(clusters, name) # {}
       THEN /\ Len(clusters') = Len(clusters)
            /\ \A c \in holders(clusters', name) :
                  /\ c \in similar_anchors(clusters, name)
                  /\ \A d \in similar_anchors(clusters, name) : c <= d
                  /\ clusters'[c].members = Append(clusters[c].members, name)
       ELSE /\ Len(clusters') = Len(clusters) + 1
            /\ clusters'[Len(clusters')].members = <<name>>

C18_AnchorMostFrequent ==
    pc \in {"proj_cluster", "proj_choose", "proj_done"} =>
        /\ {uniques[i] : i \in 1..Len(uniques)} = DOMAIN counts
        /\ Len(uniques) = Cardinality(DOMAIN counts)
        /\ \A i \in 1..Len(uniques) : \A j \in (i + 1)..Len(uniques) :
              \/ counts[uniques[i]] > counts[uniques[j]]
              \/ /\ counts[uniques[i]] = counts[uniques[j]]
                 /\ Len(uniques[i]) <= Len(uniques[j])
        /\ \A c \in 1..Len(clusters) : \A m \in 1..Len(clusters[c].members) :
              counts[clusters[c].members[1]] >= counts[clusters[c].members[m]]

\* C18 witness: the longer name occurs twice and anchors the cluster the
\* shorter name, which occurs once, has joined
C18_Witness ==
    /\ pc = "proj_choose" /\ pass = 1
    /\ uniques = <<"Proyecto Alpha", "ALPHA">>
    /\ counts["Proyecto Alpha"] = 2 /\ counts["ALPHA"] = 1
    /\ Len(clusters) = 1
    /\ clusters[1].members = <<"Proyecto Alpha", "ALPHA">>

-----------------------------------------------------------------------------
(* Normalisation, called on a name and then on its own result              *)

NormPrefixes == {"", "Proyecto ", "proj.  ", "PROJECT ", "-proyecto ", " Proy Project "}
NormCores == {"Alpha", "Zeta-2!", "ZETA 2", "zeta 2", "impl", "a.b", "Project"}
NormSuffixes == {"", " Impl", "  ", "?"}

NormInit ==
    /\ pc = "norm_start"
    /\ \E p \in NormPrefixes, c \in NormCores, x \in NormSuffixes : nk_in = p \o c \o x
    /\ nk_out = ""
    /\ nk_out2 = ""
    /\ ProjIdle /\ ScoreIdle /\ PrioIdle /\ SimIdle /\ MainIdle

Normalize ==
    /\ pc = "norm_start"
    /\ nk_out' = _proj_norm_key_raw(nk_in)
    /\ pc' = "norm_once"
    /\ UNCHANGED <<nk_in, nk_out2, projVars, scoreVars, prioVars, simVars, mainVars>>

NormalizeAgain ==
    /\ pc = "norm_once"
    /\ nk_out2' = _proj_norm_key_raw(nk_out)
    /\ pc' = "norm_twice"
    /\ UNCHANGED <<nk_in, nk_out, projVars, scoreVars, prioVars, simVars, mainVars>>

NormNext == Normalize \/ NormalizeAgain

SpecNorm == NormInit /\ [][NormNext]_vars

\* C6 (as claimed): normalising the result of _proj_norm_key_raw again changes
\* nothing.
C6_NormKeyIdempotent ==
    pc = "norm_twice" => nk_out2 = nk_out

-----------------------------------------------------------------------------
(* _projects_similar called on two names, in both orders                   *)

SimNamePool ==
    {"PortalSAP", "Portla", "Portal", "Proyecto Alpha", "ALPHA", "Alfa",
     "QA", "QA Team", "Qatar", "Impl", "Data Lake", "Datalake"}

\* The keys are the normalised names, as at line 168
SimInit ==
    /\ pc = "sim_start"
    /\ oa \in SimNamePool
    /\ ob \in SimNamePool
    /\ ka = _proj_norm_key(oa)
    /\ kb = _proj_norm_key(ob)
    /\ sim_ab = FALSE
    /\ sim_ba = FALSE
    /\ NormIdle /\ ProjIdle /\ ScoreIdle /\ PrioIdle /\ MainIdle

Compare ==
    /\ pc = "sim_start"
    /\ sim_ab' = _projects_similar(ka, kb, oa, ob)
    /\ sim_ba' = _projects_similar(kb, ka, ob, oa)
    /\ pc' = "sim_done"
    /\ UNCHANGED <<ka, kb, oa, ob, normVars, projVars, scoreVars, prioVars, mainVars>>

SimNext == Compare

SpecSim == SimInit /\ [][SimNext]_vars

C16_Symmetric ==
    pc = "sim_done" => sim_ab = sim_ba

-----------------------------------------------------------------------------
(* Priority scoring: calculate_priority_score                              *)

\* dict.get(key, default)
dict_get(d, key, default) == IF key \in DOMAIN d THEN d[key] ELSE default

\* A deadline value: absent (None or ""), a string pandas cannot turn into a
\* date (the call raises, or gives NaT), or the midnight that starts a day
NoDeadline == [kind |-> "none"]
BadDeadline == [kind |-> "bad"]
DateDeadline(d) == [kind |-> "date", day |-> d]

\* Instants are counted in ticks
TicksPerDay == 2

\* (deadline - pd.Timestamp.now()).days: Timedelta.days rounds down
days_until(deadline, now) ==
    LET diff == deadline.day * TicksPerDay - now IN
    IF diff >= 0 THEN diff \div TicksPerDay
    ELSE -(((-diff) + TicksPerDay - 1) \div TicksPerDay)

\* type_weights with Approval_Request weighted like Action_Request
type_weights_low_approval(email_type) ==
    CASE email_type = "Approval_Request" -> 15
      [] email_type = "Decision_Required" -> 25
      [] email_type = "External_Request" -> 20
      [] email_type = "Action_Request" -> 15
      [] email_type = "Meeting" -> 10
      [] email_type = "Report_Update" -> 5
      [] email_type = "FYI_Informational" -> 0
      [] email_type = "Notification_System" -> -15
      [] OTHER -> 0

\* type_weights with Notification_System weighted +15 whatever the action level
type_weights_notification_15(email_type) ==
    CASE email_type = "Approval_Request" -> 25
      [] email_type = "Decision_Required" -> 25
      [] email_type = "External_Request" -> 20
      [] email_type = "Action_Request" -> 15
      [] email_type = "Meeting" -> 10
      [] email_type = "Report_Update" -> 5
      [] email_type = "FYI_Informational" -> 0
      [] email_type = "Notification_System" -> 15
      [] OTHER -> 0

type_weights(email_type) ==
    CASE email_type = "Approval_Request" -> 25
      [] email_type = "Decision_Required" -> 25
      [] email_type = "External_Request" -> 20
      [] email_type = "Action_Request" -> 15
      [] email_type = "Meeting" -> 10
      [] email_type = "Report_Update" -> 5
      [] email_type = "FYI_Informational" -> 0
      [] email_type = "Notification_System" -> -15
      [] OTHER -> 0

urgency_weights(urgency) ==
    CASE urgency = "Immediate" -> 30
      [] urgency = "Short-term" -> 20
      [] urgency = "Medium-term" -> 10
      [] urgency = "Low" -> -5
      [] OTHER -> 0

spam_keywords ==
    <<"newsletter", "promotional", "black friday", "sale", "unsubscribe", "club novartis">>
marketing_triggers ==
    <<"trial", "free access", "survey", "encuesta", "webinar", "demo", "easyvideo", "trail">>
closure_keywords ==
    <<"confirmed completion", "task completed", "no action", "thanks", "got it",
      "acknowledged">>

\* Lines 310-314
full_context_check(data, subject) ==
    str_lower(subject) \o " " \o str_lower(dict_get(data, "summary", "")) \o " "
        \o str_lower(dict_get(data, "project", ""))

\* is_marketing_context that looks for the triggers in the summary only
is_marketing_context_summary_only(data, subject) ==
    any_in(marketing_triggers, str_lower(dict_get(data, "summary", "")))

\* Line 328
is_marketing_context(data, subject) ==
    any_in(marketing_triggers, full_context_check(data, subject))

\* deadline_weight without the marketing test of line 373
deadline_weight_in_marketing(data, subject, now) ==
    LET deadline == dict_get(data, "deadline", NoDeadline)
        action_level == dict_get(data, "action_level", "")
    IN  IF deadline.kind # "date" THEN 0
        ELSE LET d == days_until(deadline, now) IN
             IF action_level = "Mandatory"
             THEN (IF d < 1 THEN 30 ELSE IF d < 3 THEN 20 ELSE IF d < 7 THEN 10 ELSE 0)
             ELSE IF action_level = "Optional"
             THEN (IF d < 1 THEN 10 ELSE 0)
             ELSE 0

\* Lines 373-392: the deadline weight; a failed parse adds nothing
deadline_weight(data, subject, now) ==
    LET deadline == dict_get(data, "deadline", NoDeadline)
        action_level == dict_get(data, "action_level", "")
    IN  IF deadline.kind = "none" \/ is_marketing_context(data, subject) THEN 0
        ELSE IF deadline.kind = "bad" THEN 0
        ELSE LET d == days_until(deadline, now) IN
             IF action_level = "Mandatory"
             THEN (IF d < 1 THEN 30 ELSE IF d < 3 THEN 20 ELSE IF d < 7 THEN 10 ELSE 0)
             ELSE IF action_level = "Optional"
             THEN (IF d < 1 THEN 10 ELSE 0)
             ELSE 0

\* Lines 281-392: the score before the clamp of line 394
raw_score(data, importance, subject, now) ==
    LET subject_lower == str_lower(subject)
        email_type == dict_get(data, "email_type", "")
        action_level == dict_get(data, "action_level", "None")
        summary == str_lower(dict_get(data, "summary", ""))
        context == full_context_check(data, subject)
        marketing == is_marketing_context(data, subject)
        detected_urgency == dict_get(data, "urgency", "Low")
    IN  50
        + (IF str_contains(subject_lower, "[high priority]")
              \/ str_contains(subject_lower, "[urgent]") THEN 20 ELSE 0)
        + (IF importance # "" /\ str_lower(str_strip(importance)) = "high" THEN 20 ELSE 0)
        + (IF email_type = "Notification_System" /\ action_level = "Mandatory" THEN 15
           ELSE type_weights(email_type))
        - (IF any_in(spam_keywords, context) THEN 30 ELSE 0)
        - (IF marketing THEN 15 ELSE 0)
        - (IF any_in(closure_keywords, summary) THEN 20 ELSE 0)
        + (IF dict_get(data, "action_level", "") = "Mandatory" THEN 20
           ELSE IF dict_get(data, "action_level", "") = "Optional" THEN 10 ELSE 0)
        + (IF dict_get(data, "decision_level", "") = "Required" THEN 20
           ELSE IF dict_get(data, "decision_level", "") = "Optional" THEN 10 ELSE 0)
        + (IF ~marketing THEN urgency_weights(detected_urgency)
           ELSE IF detected_urgency \in {"Immediate", "Short-term"} THEN -10 ELSE 0)
        + (IF dict_get(data, "blocks_others", FALSE) THEN 25 ELSE 0)
        + (IF dict_get(data, "decision_pending", FALSE) THEN 15 ELSE 0)
        + deadline_weight(data, subject, now)

\* calculate_priority_score without the clamp
unclamped_score(data, importance, subject, now) ==
    raw_score(data, importance, subject, now)

\* calculate_priority_score called at instant now (line 394: the clamp)
calculate_priority_score(data, importance, subject, now) ==
    Max2(0, Min2(100, raw_score(data, importance, subject, now)))


-----------------------------------------------------------------------------
(* Scoring one email                                                       *)

SubjectPool == {"Q3 budget", "[URGENT] Big Sale", "Webinar invite"}
SummaryPool == {"Please sign the contract", "Thanks, got it"}
ProjectPool == {"None", "Newsletter"}
ImportancePool == {"", " High "}
EmailTypePool ==
    {"Approval_Request", "Decision_Required", "External_Request", "Action_Request",
     "Meeting", "Report_Update", "FYI_Informational", "Notification_System", "Invoice"}
ActionLevelPool == {"Mandatory", "Optional", "None", "Unknown"}
DecisionLevelPool == {"Required", "Optional", "None"}
UrgencyPool == {"Immediate", "Short-term", "Medium-term", "Low", "ASAP"}
DeadlinePool == {NoDeadline, BadDeadline, DateDeadline(0), DateDeadline(4)}

\* An analysis with every field, and the empty analysis {}
ScoreDataPool ==
    [email_type : EmailTypePool, action_level : ActionLevelPool,
     decision_level : DecisionLevelPool, urgency : UrgencyPool,
     blocks_others : BOOLEAN, decision_pending : BOOLEAN,
     deadline : DeadlinePool, summary : SummaryPool, project : ProjectPool]
    \cup {EmptyMap}

ScoreInit ==
    /\ pc = "score_start"
    /\ analysis \in ScoreDataPool
    /\ imp \in ImportancePool
    /\ subj \in SubjectPool
    /\ clock = 0 /\ t_first = 0 /\ score1 = 0 /\ score2 = 0
    /\ NormIdle /\ ProjIdle /\ PrioIdle /\ SimIdle /\ MainIdle

\* score = calculate_priority_score(analysis, imp, subj)
Score ==
    /\ pc = "score_start"
    /\ score1' = calculate_priority_score(analysis, imp, subj, clock)
    /\ t_first' = clock
    /\ pc' = "scored"
    /\ UNCHANGED <<analysis, imp, subj, clock, score2, normVars, projVars, prioVars, simVars, mainVars>>

ScoreNext == Score

SpecScore == ScoreInit /\ [][ScoreNext]_vars

\* C3: the score is an integer of 0..100, also for fields outside their
\* enumerations and for the empty analysis.
C3_ScoreInRange ==
    pc = "scored" => score1 \in 0..100

\* C3 witness: an analysis with unknown type and urgency whose sum of weights
\* is negative has been scored 0
C3_Witness ==
    /\ pc = "scored"
    /\ analysis # EmptyMap
    /\ analysis.email_type = "Invoice" /\ analysis.urgency = "ASAP"
    /\ unclamped_score(analysis, imp, subj, t_first) < 0
    /\ score1 = 0

\* The official enumerations of the analysis fields
EmailTypes ==
    {"Approval_Request", "Decision_Required", "External_Request", "Action_Request",
     "Meeting", "Report_Update", "FYI_Informational", "Notification_System"}
ActionLevels == {"Mandatory", "Optional", "None"}
DecisionLevels == {"Required", "Optional", "None"}
Urgencies == {"Immediate", "Short-term", "Medium-term", "Low"}

\* The analysis with every out-of-enumeration value replaced by the default
\* of its field
with_defaults(data) ==
    [data EXCEPT
        !.email_type = IF @ \in EmailTypes THEN @ ELSE "FYI_Informational",
        !.action_level = IF @ \in ActionLevels THEN @ ELSE "None",
        !.decision_level = IF @ \in DecisionLevels THEN @ ELSE "None",
        !.urgency = IF @ \in Urgencies THEN @ ELSE "Low"]

\* C12 (as claimed): an analysis with out-of-enumeration values scores like
\* the analysis with those values replaced by FYI_Informational, None, None
\* and Low.
C12_UnknownScoredAsDefault ==
    (pc = "scored" /\ analysis # EmptyMap) =>
        score1 = calculate_priority_score(with_defaults(analysis), imp, subj, t_first)

approval_blocker ==
    /\ analysis # EmptyMap
    /\ analysis.email_type = "Approval_Request"
    /\ analysis.action_level = "Mandatory"
    /\ analysis.urgency = "Immediate"
    /\ analysis.blocks_others

\* C8 (as claimed): a mandatory, immediate, blocking approval request scores
\* at least 75 whatever the texts.
C8_ApprovalBlockerAtLeast75 ==
    (pc = "scored" /\ approval_blocker) => score1 >= 75

\* C8 (amended): it scores at least 75 unless subject+summary+project holds
\* both a spam keyword and a marketing trigger.
C8_ApprovalBlockerAtLeast75UnlessSpamMarketing ==
    (/\ pc = "scored"
     /\ approval_blocker
     /\ ~(/\ any_in(spam_keywords, full_context_check(analysis, subj))
          /\ any_in(marketing_triggers, full_context_check(analysis, subj))))
    => score1 >= 75

\* C8 witness: the request in marketing context with a closing summary scores
\* exactly 75
C8_Witness ==
    /\ pc = "scored"
    /\ approval_blocker
    /\ any_in(marketing_triggers, full_context_check(analysis, subj))
    /\ any_in(closure_keywords, str_lower(analysis.summary))
    /\ ~any_in(spam_keywords, full_context_check(analysis, subj))
    /\ score1 = 75

\* Scoring with every type, action level, urgency, deadline and text, the
\* other fields fixed: the weights of single fields
WeightsDataPool ==
    [email_type : EmailTypePool, action_level : ActionLevelPool,
     decision_level : {"None", "Required"}, urgency : UrgencyPool,
     blocks_others : {FALSE}, decision_pending : {FALSE},
     deadline : DeadlinePool, summary : SummaryPool, project : ProjectPool]

WeightsInit ==
    /\ pc = "score_start"
    /\ analysis \in WeightsDataPool
    /\ imp \in ImportancePool
    /\ subj \in SubjectPool
    /\ clock = 0 /\ t_first = 0 /\ score1 = 0 /\ score2 = 0
    /\ NormIdle /\ ProjIdle /\ PrioIdle /\ SimIdle /\ MainIdle

SpecWeights == WeightsInit /\ [][ScoreNext]_vars

\* A marketing trigger occurs in subject + summary + project of the scored email
trigger_in_texts ==
    \E i \in 1..Len(marketing_triggers) :
        str_contains(str_lower(subj) \o " " \o str_lower(analysis.summary) \o " "
                         \o str_lower(analysis.project),
                     marketing_triggers[i])

\* The analysis with an urgency that weighs nothing and without a deadline
without_urgency_deadline(data) ==
    [data EXCEPT !.urgency = "", !.deadline = NoDeadline]

\* C19: with a marketing trigger in subject + summary + project, urgency
\* contributes -10 when it is Immediate or Short-term and 0 otherwise, and the
\* deadline contributes 0 whatever the deadline and action_level.
C19_MarketingGetsNoUrgencyNoDeadline ==
    (pc = "scored" /\ analysis # EmptyMap /\ trigger_in_texts) =>
        LET rest == raw_score(without_urgency_deadline(analysis), imp, subj, t_first)
            urgent == IF analysis.urgency \in {"Immediate", "Short-term"} THEN -10 ELSE 0
        IN  /\ raw_score(analysis, imp, subj, t_first) = rest + urgent
            /\ score1 = Max2(0, Min2(100, rest + urgent))

\* C19 witness: a mandatory, immediate email in marketing context whose
\* deadline is today is scored 10 below the same email without urgency and
\* deadline, with no clamp in the way
C19_Witness ==
    /\ pc = "scored" /\ analysis # EmptyMap /\ trigger_in_texts
    /\ analysis.urgency = "Immediate"
    /\ analysis.action_level = "Mandatory"
    /\ analysis.deadline = DateDeadline(0)
    /\ score1 \in 11..99
    /\ score1 = raw_score(without_urgency_deadline(analysis), imp, subj, t_first) - 10

\* The type contribution in the words of the claim
claimed_type_contribution(email_type, action_level) ==
    IF email_type = "Notification_System" /\ action_level = "Mandatory" THEN 15
    ELSE IF email_type \in {"Approval_Request", "Decision_Required"} THEN 25
    ELSE IF email_type = "External_Request" THEN 20
    ELSE IF email_type = "Action_Request" THEN 15
    ELSE IF email_type = "Meeting" THEN 10
    ELSE IF email_type = "Report_Update" THEN 5
    ELSE IF email_type = "Notification_System" THEN -15
    ELSE 0

\* C20: the type contributes +15 for a mandatory Notification_System email,
\* with the +20 of Mandatory added as for any type, and the table value for
\* every other pair of type and action level, 0 for a type outside the table.
C20_TypeContribution ==
    (pc = "scored" /\ analysis # EmptyMap) =>
        LET rest == raw_score([analysis EXCEPT !.email_type = ""], imp, subj, t_first)
            type == claimed_type_contribution(analysis.email_type, analysis.action_level)
        IN  /\ raw_score(analysis, imp, subj, t_first) = rest + type
            /\ score1 = Max2(0, Min2(100, rest + type))
            /\ (analysis.action_level = "Mandatory" /\ analysis.deadline = NoDeadline) =>
                  rest = 20 + raw_score([analysis EXCEPT !.email_type = "",
                                                         !.action_level = "None"],
                                        imp, subj, t_first)

\* C20 witness: a mandatory Notification_System email scored 15 above the
\* same email without a type, with no clamp in the way
C20_Witness ==
    /\ pc = "scored" /\ analysis # EmptyMap
    /\ analysis.email_type = "Notification_System"
    /\ analysis.action_level = "Mandatory"
    /\ score1 \in 1..99
    /\ score1 = 15 + raw_score([analysis EXCEPT !.email_type = ""], imp, subj, t_first)

-----------------------------------------------------------------------------
(* Scoring the same email twice while time passes                          *)

\* Last instant of the clock
MaxClock == 4

RescoreDataPool ==
    [email_type : {"Action_Request"}, action_level : ActionLevelPool,
     decision_level : {"None"}, urgency : {"Short-term"},
     blocks_others : {FALSE}, decision_pending : {FALSE},
     deadline : DeadlinePool \cup {DateDeadline(1), DateDeadline(2)},
     summary : {"Please sign the contract"}, project : {"None"}]

RescoreInit ==
    /\ pc = "score_start"
    /\ analysis \in RescoreDataPool
    /\ imp = ""
    /\ subj \in {"Q3 budget", "Webinar invite"}
    /\ clock = 0 /\ t_first = 0 /\ score1 = 0 /\ score2 = 0
    /\ NormIdle /\ ProjIdle /\ PrioIdle /\ SimIdle /\ MainIdle

\* Time passes between the two calls
Tick ==
    /\ pc = "scored"
    /\ clock < MaxClock
    /\ clock' = clock + 1
    /\ UNCHANGED <<pc, analysis, imp, subj, t_first, score1, score2, normVars, projVars, prioVars, simVars, mainVars>>

\* The same call again
ScoreAgain ==
    /\ pc = "scored"
    /\ score2' = calculate_priority_score(analysis, imp, subj, clock)
    /\ pc' = "rescored"
    /\ UNCHANGED <<analysis, imp, subj, clock, t_first, score1, normVars, projVars, prioVars, simVars, mainVars>>

RescoreNext == Score \/ Tick \/ ScoreAgain

SpecRescore == RescoreInit /\ [][RescoreNext]_vars

\* C7 (as claimed): two calls with the same arguments return the same score
\* whatever the instants of the calls.
C7_SameScoreAtAnyInstant ==
    pc = "rescored" => score2 = score1

\* C7 (amended): the two calls return the same score when the analysis has no
\* deadline that parses, or the text is in marketing context, or action_level
\* is neither Mandatory nor Optional, or both instants are the same number of
\* whole days before the deadline.
C7_SameScoreUnlessDeadlineMoves ==
    (/\ pc = "rescored"
     /\ \/ analysis.deadline.kind # "date"
        \/ is_marketing_context(analysis, subj)
        \/ analysis.action_level \notin {"Mandatory", "Optional"}
        \/ days_until(analysis.deadline, t_first) = days_until(analysis.deadline, clock))
    => score2 = score1

\* C7 witness: a mandatory action with a deadline in marketing context, scored
\* again when fewer whole days are left
C7_Witness ==
    /\ pc = "rescored"
    /\ analysis.deadline.kind = "date"
    /\ analysis.action_level = "Mandatory"
    /\ is_marketing_context(analysis, subj)
    /\ days_until(analysis.deadline, clock) < days_until(analysis.deadline, t_first)
    /\ score2 = score1

-----------------------------------------------------------------------------
(* Priority mapping: check_user_overrides and map_to_priority              *)

TRUSTED_SENDER_DOMAINS ==
    <<"sandoz.com", "sandoz.net", "csod.com", "microsoft.com", "sharepointonline.com",
      "outlook.com", "regaloresponsable.es", "ilunion.com">>

benefit_keywords == <<"cesta navidad", "lote navidad", "obsequio empresa", "bonus letter">>
sharing_keywords == <<"wants to share", "requested access", "sharing request">>
support_keywords ==
    <<"dare asking", "need your support", "asking for your support", "need your help",
      "can you help", "asking for your help", "appreciate your support", "is there a way",
      "is there an easy way", "mentioned you">>
spam_indicators == <<"newsletter", "promotional", "unsubscribe", "black friday", "sale">>

\* check_user_overrides that compares the entry as written with the
\* lower-cased sender
check_user_overrides_case_sensitive(text_content, sender, vip_senders) ==
    LET sender_clean == str_strip(str_lower(sender)) IN
    \E i \in 1..Len(vip_senders) :
        vip_senders[i] # "" /\ str_contains(sender_clean, vip_senders[i])

check_user_overrides(text_content, sender, vip_senders) ==
    LET sender_clean == str_strip(str_lower(sender)) IN
    \E i \in 1..Len(vip_senders) :
        vip_senders[i] # "" /\ str_contains(sender_clean, str_lower(vip_senders[i]))

\* Line 451
is_trusted(sender) ==
    \E i \in 1..Len(TRUSTED_SENDER_DOMAINS) :
        str_contains(str_lower(sender), TRUSTED_SENDER_DOMAINS[i])

\* Line 456
is_trusted_benefit(sender, subject) ==
    is_trusted(sender) /\ any_in(benefit_keywords, str_lower(subject))

\* Lines 460-462
is_sharing_request(sender, subject) ==
    /\ any_in(sharing_keywords, str_lower(subject))
    /\ (str_contains(str_lower(sender), "sharepoint")
        \/ str_contains(str_lower(sender), "confluence"))

\* Line 483
is_support_request(body) == any_in(support_keywords, str_lower(body))

\* is_untrusted_spam without the test of the sender's domain
is_spam_whatever_sender(sender, subject, body) ==
    any_in(spam_indicators, str_lower(subject \o " " \o body))

\* Lines 494-499
is_untrusted_spam(sender, subject, body) ==
    ~is_trusted(sender) /\ any_in(spam_indicators, str_lower(subject \o " " \o body))

\* `forced_priority and forced_priority in ["High", "Medium", "Low"]`
is_forced(forced_priority) ==
    forced_priority # PyNone /\ forced_priority[1] \in {"High", "Medium", "Low"}

\* content_rules with the support phrases tested before the score threshold
content_rules_support_first(sender, subject, body, email_type, action_level, urgency, blocks_others, score) ==
    IF is_trusted_benefit(sender, subject) THEN "Medium"
    ELSE IF is_sharing_request(sender, subject) THEN "High"
    ELSE IF urgency = "Immediate" \/ blocks_others THEN "High"
    ELSE IF is_support_request(body) THEN "Medium"
    ELSE IF score >= 75 THEN "High"
    ELSE IF email_type \in {"Approval_Request", "Decision_Required"} THEN "High"
    ELSE IF action_level = "Mandatory" /\ urgency = "Short-term" THEN "High"
    ELSE IF email_type = "External_Request" /\ urgency \in {"Immediate", "Short-term"}
         THEN "High"
    ELSE IF action_level \in {"Mandatory", "Optional"}
         THEN (IF score >= 50 THEN "Medium" ELSE "Medium")
    ELSE IF is_untrusted_spam(sender, subject, body) THEN "Low"
    ELSE IF score < 30 /\ action_level = "None" THEN "Low"
    ELSE IF urgency = "Low" /\ action_level = "None" THEN "Low"
    ELSE "Medium"

\* content_rules whose action-level rule gives Low below a score of 50
content_rules_low_below_50(sender, subject, body, email_type, action_level, urgency, blocks_others, score) ==
    IF is_trusted_benefit(sender, subject) THEN "Medium"
    ELSE IF is_sharing_request(sender, subject) THEN "High"
    ELSE IF urgency = "Immediate" \/ blocks_others THEN "High"
    ELSE IF score >= 75 THEN "High"
    ELSE IF email_type \in {"Approval_Request", "Decision_Required"} THEN "High"
    ELSE IF action_level = "Mandatory" /\ urgency = "Short-term" THEN "High"
    ELSE IF email_type = "External_Request" /\ urgency \in {"Immediate", "Short-term"}
         THEN "High"
    ELSE IF is_support_request(body) THEN "Medium"
    ELSE IF action_level \in {"Mandatory", "Optional"}
         THEN (IF score >= 50 THEN "Medium" ELSE "Low")
    ELSE IF is_untrusted_spam(sender, subject, body) THEN "Low"
    ELSE IF score < 30 /\ action_level = "None" THEN "Low"
    ELSE IF urgency = "Low" /\ action_level = "None" THEN "Low"
    ELSE "Medium"

\* content_rules with the spam indicators tested before the action level
content_rules_spam_first(sender, subject, body, email_type, action_level, urgency, blocks_others, score) ==
    IF is_trusted_benefit(sender, subject) THEN "Medium"
    ELSE IF is_sharing_request(sender, subject) THEN "High"
    ELSE IF urgency = "Immediate" \/ blocks_others THEN "High"
    ELSE IF score >= 75 THEN "High"
    ELSE IF email_type \in {"Approval_Request", "Decision_Required"} THEN "High"
    ELSE IF action_level = "Mandatory" /\ urgency = "Short-term" THEN "High"
    ELSE IF email_type = "External_Request" /\ urgency \in {"Immediate", "Short-term"}
         THEN "High"
    ELSE IF is_support_request(body) THEN "Medium"
    ELSE IF is_untrusted_spam(sender, subject, body) THEN "Low"
    ELSE IF action_level \in {"Mandatory", "Optional"}
         THEN (IF score >= 50 THEN "Medium" ELSE "Medium")
    ELSE IF score < 30 /\ action_level = "None" THEN "Low"
    ELSE IF urgency = "Low" /\ action_level = "None" THEN "Low"
    ELSE "Medium"

\* Lines 450-508: the rules on the content of the email
content_rules(sender, subject, body, email_type, action_level, urgency, blocks_others, score) ==
    IF is_trusted_benefit(sender, subject) THEN "Medium"
    ELSE IF is_sharing_request(sender, subject) THEN "High"
    ELSE IF urgency = "Immediate" \/ blocks_others THEN "High"
    ELSE IF score >= 75 THEN "High"
    ELSE IF email_type \in {"Approval_Request", "Decision_Required"} THEN "High"
    ELSE IF action_level = "Mandatory" /\ urgency = "Short-term" THEN "High"
    ELSE IF email_type = "External_Request" /\ urgency \in {"Immediate", "Short-term"}
         THEN "High"
    ELSE IF is_support_request(body) THEN "Medium"
    ELSE IF action_level \in {"Mandatory", "Optional"}
         THEN (IF score >= 50 THEN "Medium" ELSE "Medium")
    ELSE IF is_untrusted_spam(sender, subject, body) THEN "Low"
    ELSE IF score < 30 /\ action_level = "None" THEN "Low"
    ELSE IF urgency = "Low" /\ action_level = "None" THEN "Low"
    ELSE "Medium"

\* map_to_priority with the VIP senders tested before the security flags
map_to_priority_vip_first(sender, subject, body, email_type, action_level, decision_level, urgency, blocks_others, score, importance, user_config, forced_priority, is_phishing, is_spam) ==
    IF check_user_overrides(subject \o " " \o body, sender,
                            dict_get(user_config, "vip_senders", <<>>)) THEN "High"
    ELSE IF is_phishing \/ is_spam THEN "Low"
    ELSE IF is_forced(forced_priority) THEN forced_priority[1]
    ELSE content_rules(sender, subject, body, email_type, action_level, urgency,
                       blocks_others, score)

\* map_to_priority with the forced priority tested after the corporate benefits
map_to_priority_benefit_first(sender, subject, body, email_type, action_level, decision_level, urgency, blocks_others, score, importance, user_config, forced_priority, is_phishing, is_spam) ==
    IF is_phishing \/ is_spam THEN "Low"
    ELSE IF check_user_overrides(subject \o " " \o body, sender,
                                 dict_get(user_config, "vip_senders", <<>>)) THEN "High"
    ELSE IF is_trusted_benefit(sender, subject) THEN "Medium"
    ELSE IF is_forced(forced_priority) THEN forced_priority[1]
    ELSE content_rules(sender, subject, body, email_type, action_level, urgency,
                       blocks_others, score)

\* Lines 435-508
map_to_priority(sender, subject, body, email_type, action_level, decision_level, urgency, blocks_others, score, importance, user_config, forced_priority, is_phishing, is_spam) ==
    IF is_phishing \/ is_spam THEN "Low"
    ELSE IF check_user_overrides(subject \o " " \o body, sender,
                                 dict_get(user_config, "vip_senders", <<>>)) THEN "High"
    ELSE IF is_forced(forced_priority) THEN forced_priority[1]
    ELSE content_rules(sender, subject, body, email_type, action_level, urgency,
                       blocks_others, score)

-----------------------------------------------------------------------------
(* Mapping one email to its priority                                       *)

SenderPool ==
    {"Boss <boss@vip.org>", "HR <hr@sandoz.com>",
     "SharePoint <no-reply@sharepointonline.com>", "Shop <news@shop.biz>"}
PrioSubjectPool == {"Cesta Navidad 2024", "Ana wants to share a file", "Budget review"}
BodyPool == {"Can you help me with this?", "Click to unsubscribe", "See attached"}
PrioTypePool == {"Approval_Request", "External_Request", "FYI_Informational"}
PrioActionPool == {"Mandatory", "Optional", "None"}
PrioUrgencyPool == {"Immediate", "Short-term", "Medium-term", "Low"}
ScorePool == {0, 29, 30, 74, 75}
UserConfigPool == {EmptyMap, [vip_senders |-> <<"", "BOSS@vip">>]}
ForcedPool == {PyNone, PyStr("High"), PyStr("Medium"), PyStr("Low"), PyStr("Urgent")}

CallPool ==
    [sender : SenderPool, subject : PrioSubjectPool, body : BodyPool,
     email_type : PrioTypePool, action_level : PrioActionPool, decision_level : {"None"},
     urgency : PrioUrgencyPool, blocks_others : BOOLEAN, score : ScorePool,
     importance : {"normal"}, user_config : UserConfigPool, forced_priority : ForcedPool,
     is_phishing : BOOLEAN, is_spam : BOOLEAN]

PrioInit ==
    /\ pc = "prio_start"
    /\ PrioIdle
    /\ NormIdle /\ ProjIdle /\ ScoreIdle /\ SimIdle /\ MainIdle

\* priority = map_to_priority(...)
MapToPriority ==
    /\ pc = "prio_start"
    /\ \E a \in CallPool :
          /\ call' = a
          /\ priority' = map_to_priority(a.sender, a.subject, a.body, a.email_type,
                                         a.action_level, a.decision_level, a.urgency,
                                         a.blocks_others, a.score, a.importance,
                                         a.user_config, a.forced_priority,
                                         a.is_phishing, a.is_spam)
    /\ pc' = "mapped"
    /\ UNCHANGED <<normVars, projVars, scoreVars, simVars, mainVars>>

PrioNext == MapToPriority

SpecPrio == PrioInit /\ [][PrioNext]_vars

mapped == pc = "mapped"
secure == mapped /\ ~call.is_phishing /\ ~call.is_spam
is_vip ==
    check_user_overrides("", call.sender, dict_get(call.user_config, "vip_senders", <<>>))

\* C1: the result is Low whenever is_phishing or is_spam is set, whatever the
\* other arguments.
C1_SecurityFlagsGiveLow ==
    (mapped /\ (call.is_phishing \/ call.is_spam)) => priority = "Low"

\* C1 witness: a flagged email of a VIP sender with forced priority High
C1_Witness ==
    /\ mapped /\ call.is_phishing /\ ~call.is_spam
    /\ is_vip
    /\ call.forced_priority = PyStr("High")
    /\ call.urgency = "Immediate"
    /\ priority = "Low"

\* C2 (as claimed): without a security flag a valid forced priority is the
\* result, whatever the other arguments.
C2_ForcedPriorityReturned ==
    (secure /\ is_forced(call.forced_priority)) => priority = call.forced_priority[1]

\* C2 (amended): without a security flag and with a sender that matches no
\* VIP entry, a valid forced priority is the result.
C2_ForcedPriorityReturnedUnlessVip ==
    (secure /\ is_forced(call.forced_priority) /\ ~is_vip)
    => priority = call.forced_priority[1]

\* C2 witness: forced High is the result for an email with score 0, low
\* urgency and no action, which the content rules would make Low
C2_Witness ==
    /\ secure /\ ~is_vip
    /\ call.forced_priority = PyStr("High")
    /\ call.urgency = "Low" /\ call.action_level = "None" /\ ~call.blocks_others
    /\ call.score = 0
    /\ content_rules(call.sender, call.subject, call.body, call.email_type,
                     call.action_level, call.urgency, call.blocks_others, call.score) = "Low"
    /\ priority = "High"

\* The sender of the call contains, case-insensitively, a non-empty entry of
\* vip_senders
sender_holds_vip_entry ==
    LET entries == dict_get(call.user_config, "vip_senders", <<>>) IN
    \E i \in 1..Len(entries) :
        entries[i] # "" /\ str_contains(str_lower(call.sender), str_lower(entries[i]))

\* C14: without a security flag, a sender that contains a non-empty VIP entry
\* gives High whatever the other arguments, a forced Low or Medium included.
C14_VipSenderGivesHigh ==
    (secure /\ sender_holds_vip_entry) => priority = "High"

\* C14 witness: a VIP sender written in another case than the entry, with
\* forced priority Low and an email the content rules would make Low
C14_Witness ==
    /\ secure /\ sender_holds_vip_entry
    /\ call.sender = "Boss <boss@vip.org>"
    /\ call.forced_priority = PyStr("Low")
    /\ content_rules(call.sender, call.subject, call.body, call.email_type,
                     call.action_level, call.urgency, call.blocks_others, call.score) = "Low"
    /\ priority = "High"

\* The cascade of the specification: whether rule r matches, and its tier
rule_matches(a, r) ==
    CASE r = 1 -> a.is_phishing \/ a.is_spam
      [] r = 2 -> check_user_overrides("", a.sender,
                                       dict_get(a.user_config, "vip_senders", <<>>))
      [] r = 3 -> is_forced(a.forced_priority)
      [] r = 4 -> is_trusted(a.sender) /\ any_in(benefit_keywords, str_lower(a.subject))
      [] r = 5 -> is_sharing_request(a.sender, a.subject)
      [] r = 6 -> a.urgency = "Immediate" \/ a.blocks_others
      [] r = 7 -> a.score >= 75
      [] r = 8 -> a.email_type \in {"Approval_Request", "Decision_Required"}
      [] r = 9 -> a.action_level = "Mandatory" /\ a.urgency = "Short-term"
      [] r = 10 -> a.email_type = "External_Request"
                   /\ a.urgency \in {"Immediate", "Short-term"}
      [] r = 11 -> is_support_request(a.body)
      [] r = 12 -> a.action_level \in {"Mandatory", "Optional"}
      [] r = 13 -> ~is_trusted(a.sender)
                   /\ any_in(spam_indicators, str_lower(a.subject \o " " \o a.body))
      [] r = 14 -> a.score < 30 /\ a.action_level = "None"
      [] r = 15 -> a.urgency = "Low" /\ a.action_level = "None"
      [] OTHER -> TRUE

rule_tier(a, r) ==
    CASE r = 3 -> a.forced_priority[1]
      [] r \in {1, 13, 14, 15} -> "Low"
      [] r \in {2, 5, 6, 7, 8, 9, 10} -> "High"
      [] OTHER -> "Medium"

\* The first rule that matches, tried in order from rule r
RECURSIVE first_rule_from(_, _)
first_rule_from(a, r) ==
    IF rule_matches(a, r) THEN r ELSE first_rule_from(a, r + 1)

first_rule(a) == first_rule_from(a, 1)

\* C9: the result is the tier of the first of the sixteen rules of the
\* specification that matches.
C9_FollowsReferenceCascade ==
    mapped => priority = rule_tier(call, first_rule(call))

\* C9 witness: an email that only rule 14 (score < 30, no action) decides,
\* though rules 15 and 16 match too
C9_Witness ==
    /\ mapped
    /\ first_rule(call) = 14
    /\ call.urgency = "Low"
    /\ priority = "Low"

\* C21: when none of the rules 1 to 11 matches and action_level is Mandatory
\* or Optional the result is Medium, whatever the score.
C21_ActionLevelGivesMedium ==
    (/\ mapped
     /\ \A r \in 1..11 : ~rule_matches(call, r)
     /\ call.action_level \in {"Mandatory", "Optional"})
    => priority = "Medium"

\* C21 witness: an optional action with score 0 from an untrusted sender whose
\* body holds a spam indicator is Medium
C21_Witness ==
    /\ mapped
    /\ \A r \in 1..11 : ~rule_matches(call, r)
    /\ call.action_level = "Optional"
    /\ call.score = 0
    /\ call.urgency = "Low"
    /\ rule_matches(call, 13)
    /\ priority = "Medium"

\* The sender of the call names a trusted domain
sender_in_trusted_domain ==
    \E i \in 1..Len(TRUSTED_SENDER_DOMAINS) :
        str_contains(str_lower(call.sender), TRUSTED_SENDER_DOMAINS[i])

\* A spam indicator occurs in subject or body of the call
spam_indicator_in_text ==
    \E i \in 1..Len(spam_indicators) :
        \/ str_contains(str_lower(call.subject), spam_indicators[i])
        \/ str_contains(str_lower(call.body), spam_indicators[i])

\* C22: for a sender of a trusted domain without a security flag the result
\* is Low only if forced_priority is Low, or score < 30 with action_level
\* None, or urgency Low with action_level None, spam indicators or not.
C22_TrustedSenderNotLowBySpamRule ==
    (secure /\ sender_in_trusted_domain /\ priority = "Low") =>
        \/ call.forced_priority = PyStr("Low")
        \/ (call.score < 30 /\ call.action_level = "None")
        \/ (call.urgency = "Low" /\ call.action_level = "None")

\* C22 witness: a trusted sender's email with "unsubscribe" in the body, no
\* action, score 30 and medium-term urgency is Medium
C22_Witness ==
    /\ secure /\ sender_in_trusted_domain /\ spam_indicator_in_text
    /\ ~is_vip /\ call.forced_priority = PyNone
    /\ call.body = "Click to unsubscribe"
    /\ call.action_level = "None" /\ call.score = 30 /\ call.urgency = "Medium-term"
    /\ priority = "Medium"

\* C27: with action_level Mandatory or Optional, no security flag and a
\* forced_priority other than Low, the result is never Low.
C27_ActionNeverLow ==
    (/\ secure
     /\ call.action_level \in {"Mandatory", "Optional"}
     /\ call.forced_priority # PyStr("Low"))
    => priority # "Low"

\* C27 witness: a mandatory action of an untrusted sender with a spam
\* indicator in the body, score 0 and low urgency is Medium
C27_Witness ==
    /\ secure /\ ~is_vip
    /\ call.action_level = "Mandatory"
    /\ call.forced_priority = PyStr("Urgent")
    /\ ~sender_in_trusted_domain /\ spam_indicator_in_text
    /\ call.score = 0 /\ call.urgency = "Low"
    /\ priority = "Medium"

-----------------------------------------------------------------------------
(* llm_email_analysis_enhanced (llm.py) and the analysis run of main        *)

\* s[:n]
str_prefix(s, n) == SubSeq(s, 1, Min2(n, Len(s)))

\* s.replace("\n", " ")
RECURSIVE str_replace_newlines(_)
str_replace_newlines(s) ==
    IF s = "" THEN ""
    ELSE (IF Head(s) = "\n" THEN " " ELSE Head(s)) \o str_replace_newlines(Tail(s))

\* str() of a deadline the classifier returned
deadline_text(deadline) ==
    IF deadline.kind = "date" THEN "day " \o ToString(deadline.day) ELSE "soon"

\* What stands for data when client.chat.completions.create raises
LlmRaised == [raised |-> TRUE]

forbidden_tasks == <<"stay informed", "monitor", "be aware", "keep in mind", "take action">>

\* llm.py lines 358-455. data is the JSON object the classifier answered, or
\* LlmRaised when the request raised; "actions" holds <<list>>, or <<>> for
\* null: iterating null raises, and the except branch answers.
\* now stands for the instant of the call.
llm_email_analysis_enhanced(data, subject, sender, body, importance, user_config, is_phishing, is_spam, now) ==
    LET failed ==
            [priority |-> "Medium", score |-> 50,
             summary |-> str_split(sender)[1] \o " sent: " \o str_prefix(subject, 100),
             tasks |-> <<>>, email_type |-> "FYI_Informational", action_level |-> "None",
             deadline |-> NoDeadline, urgency |-> "Low", project |-> "None",
             blocks_others |-> FALSE, decision_pending |-> FALSE,
             requires_action |-> FALSE, forced_priority |-> PyNone]
        actions == dict_get(data, "actions", << <<>> >>)
        deadline == dict_get(data, "deadline", NoDeadline)
        raw_summary == str_strip(dict_get(data, "summary", ""))
        body_preview == str_strip(str_replace_newlines(str_prefix(body, 300)))
        summary0 ==
            IF raw_summary = "" \/ raw_summary = subject \/ Len(raw_summary) < 30
            THEN "Email from " \o str_split(sender)[1] \o " regarding "
                 \o str_prefix(subject, 60) \o ". " \o str_prefix(body_preview, 150)
            ELSE raw_summary
        summary ==
            IF /\ \/ str_contains(str_lower(subject), "training")
                  \/ str_contains(str_lower(sender), "csod")
               /\ deadline.kind # "none"
               /\ ~str_contains(summary0, deadline_text(deadline))
            THEN summary0 \o " Deadline: " \o deadline_text(deadline) \o "."
            ELSE summary0
        kept == SelectSeq(actions[1], LAMBDA t : ~any_in(forbidden_tasks, str_lower(t)))
        tasks ==
            IF kept # <<>> THEN kept
            ELSE IF dict_get(data, "action_level", "") = "Mandatory"
                 THEN <<"Complete required action">>
            ELSE IF dict_get(data, "decision_level", "") = "Required"
                 THEN <<"Provide decision">>
            ELSE <<>>
        score == calculate_priority_score(data, importance, subject, now)
        detected_project == str_strip(dict_get(data, "project", ""))
        vip_projects_list == dict_get(user_config, "priority_projects", <<>>)
        detected_clean == str_strip(str_lower(detected_project))
        vip_hit ==
            /\ detected_project # ""
            /\ str_lower(detected_project) # "none"
            /\ \E i \in 1..Len(vip_projects_list) :
                  LET vip_clean == str_strip(str_lower(vip_projects_list[i])) IN
                  /\ vip_clean # ""
                  /\ \/ str_contains(detected_clean, vip_clean)
                     \/ str_contains(vip_clean, detected_clean)
        forced_prio == IF vip_hit THEN PyStr("High") ELSE dict_get(data, "forced_priority", PyNone)
    IN  IF "raised" \in DOMAIN data THEN failed
        ELSE IF actions = PyNone THEN failed
        ELSE [priority |->
                  map_to_priority(sender, subject, body,
                                  dict_get(data, "email_type", "FYI_Informational"),
                                  dict_get(data, "action_level", "None"),
                                  dict_get(data, "decision_level", "None"),
                                  dict_get(data, "urgency", "Low"),
                                  dict_get(data, "blocks_others", FALSE),
                                  score, importance, user_config, forced_prio,
                                  is_phishing, is_spam),
              score |-> score,
              summary |-> str_prefix(summary, 300),
              tasks |-> tasks,
              context |-> str_prefix(detected_project, 150),
              requires_action |-> dict_get(data, "action_level", "") \in {"Mandatory", "Optional"},
              email_type |-> dict_get(data, "email_type", "FYI_Informational"),
              action_level |-> dict_get(data, "action_level", "None"),
              decision_level |-> dict_get(data, "decision_level", "None"),
              deadline |-> deadline,
              urgency |-> dict_get(data, "urgency", "Low"),
              project |-> dict_get(data, "project", "None"),
              blocks_others |-> dict_get(data, "blocks_others", FALSE),
              decision_pending |-> dict_get(data, "decision_pending", FALSE),
              forced_priority |-> forced_prio]

-----------------------------------------------------------------------------
(* main: the analysis loop and the thread deduplication                     *)

\* config.py line 12 holds 10000; the model runs with a small limit
MAX_LLM_CALLS == 3
\* The literal 30 of main.py line 615, scaled down with MAX_LLM_CALLS
SECURITY_LLM_CALLS == 2
\* Longest batch of emails
MaxEmails == 3

\* sender_domain: the text after the first "@", as far as it reads as a domain
sender_domain(addr) ==
    LET ats == {i \in 1..Len(addr) : CharAt(addr, i) = "@"}
        at == CHOOSE i \in ats : \A j \in ats : i <= j
        rest == SubSeq(addr, at + 1, Len(addr))
        DomChar(c) == IsLetter(c) \/ c \in DigitChars \/ c \in {".", "-"}
        run == CHOOSE n \in 0..Len(rest) :
                  /\ \A k \in 1..n : DomChar(CharAt(rest, k))
                  /\ n = Len(rest) \/ ~DomChar(CharAt(rest, n + 1))
        ends == {n \in 1..run : \E d \in 2..(n - 2) :
                    /\ CharAt(rest, d) = "."
                    /\ \A k \in (d + 1)..n : IsLetter(CharAt(rest, k))}
    IN  IF ats = {} \/ ends = {} THEN ""
        ELSE str_lower(SubSeq(rest, 1, CHOOSE n \in ends : \A m \in ends : m <= n))

\* clean_sender_display: the display name, else the local part of the address
clean_sender_display(name, addr) ==
    LET a == str_strip(addr)
        Local(c) == ~IsSpace(c) /\ c # "<"
        Host(c) == ~IsSpace(c) /\ c # ">"
        ats == {i \in 2..(Len(a) - 1) :
                   CharAt(a, i) = "@" /\ Local(CharAt(a, i - 1)) /\ Host(CharAt(a, i + 1))}
        at == CHOOSE i \in ats : \A j \in ats : i <= j
        start == CHOOSE s \in 1..(at - 1) :
                    /\ \A k \in s..(at - 1) : Local(CharAt(a, k))
                    /\ s = 1 \/ ~Local(CharAt(a, s - 1))
    IN  IF str_strip(name) # "" THEN str_strip(name)
        ELSE IF ats # {} THEN SubSeq(a, start, at - 1)
        ELSE "Unknown"

\* extract_main for a text of at most 50 characters: line 210 cuts only at a
\* position past 50 and line 219 past 200, so the whitespace is collapsed
extract_main(text, subject) == str_join(str_split(text))

whitelist_keywords ==
    <<"quip digest", "quip updates", "sandoz group ag", "weekly digest", "iberia",
      "vuelo", "flight", "jira", "confluence", "sharepoint">>

\* may_call_llm that lets the counter reach the limit and go on
may_call_llm_inclusive(calls) == calls <= MAX_LLM_CALLS

\* Line 646: may the content analysis use the classifier
may_call_llm(calls) == calls < MAX_LLM_CALLS

\* Line 615: is llm_security_analysis called for email e
security_called(e, calls) ==
    calls < MAX_LLM_CALLS /\ (e.heur_phish \/ e.heur_spam) /\ calls < SECURITY_LLM_CALLS

\* Lines 611-634: is_phish and is_sp of email e when the counter is at calls
final_flags(e, calls) ==
    LET security_analysis == IF security_called(e, calls) THEN e.sec_reply ELSE EmptyMap
        full_text_check ==
            str_lower(e.subj \o " " \o e.s_name \o " " \o e.s_addr \o " " \o str_prefix(e.body, 500))
        dom_trusted == \E i \in 1..Len(TRUSTED_SENDER_DOMAINS) :
                           sender_domain(e.s_addr) = TRUSTED_SENDER_DOMAINS[i]
        is_whitelisted == any_in(whitelist_keywords, full_text_check)
    IN  IF dom_trusted \/ is_whitelisted
        THEN [is_phish |-> FALSE, is_sp |-> FALSE]
        ELSE [is_phish |-> dict_get(security_analysis, "is_phishing", e.heur_phish),
              is_sp |-> dict_get(security_analysis, "is_spam", e.heur_spam)]

\* Lines 651-670: the urgency is rewritten from the deadline; today is
\* date.today() as a day number
deadline_urgency(a, today) ==
    LET deadline == dict_get(a, "deadline", NoDeadline)
        dias_diferencia == deadline.day - today
    IN  IF deadline.kind # "date" THEN a
        ELSE [a EXCEPT !.urgency =
                  IF dias_diferencia <= 2 THEN "Immediate"
                  ELSE IF dias_diferencia <= 7 THEN "Short-term"
                  ELSE IF dias_diferencia <= 14 THEN "Medium-term"
                  ELSE "Low"]

\* Lines 673-719: a CC recipient the body does not address gets no task.
\* e.user_mentioned is what the scan of lines 677-709 finds.
cc_rewrite(a, e) ==
    IF e.is_cc /\ a.tasks # <<>> /\ ~e.user_mentioned
    THEN [a EXCEPT !.tasks = <<>>,
                   !.action_level = "None",
                   !.requires_action = FALSE,
                   !.email_type = IF @ \in {"FYI_Informational", "Notification_System"}
                                  THEN @ ELSE "FYI_Informational",
                   !.summary = "[CC - FYI] " \o @]
    ELSE a

\* Lines 721-752: the heuristic analysis
heuristic_fallback(e, main_body) ==
    LET s_first == str_split(clean_sender_display(e.s_name, e.s_addr))[1]
        subj_low == str_lower(e.subj)
        body_low == str_lower(main_body)
        email_type ==
            IF str_contains(str_lower(e.s_addr), "csod.com") THEN "Notification_System"
            ELSE IF any_in(<<"action needed", "required">>, subj_low) THEN "Action_Request"
            ELSE "FYI_Informational"
        action_level ==
            IF any_in(<<"must complete", "mandatory">>, body_low) THEN "Mandatory" ELSE "None"
        urgency == IF any_in(<<"urgent", "today">>, subj_low) THEN "Immediate" ELSE "Low"
        score_heur == 50 + (IF action_level = "Mandatory" THEN 20 ELSE 0)
                         + (IF urgency = "Immediate" THEN 30 ELSE 0)
    IN  [priority |-> IF score_heur >= 75 THEN "High" ELSE "Medium",
         score |-> score_heur,
         summary |-> "Email from " \o s_first \o ": " \o str_prefix(e.subj, 50),
         tasks |-> IF action_level = "Mandatory" THEN <<"Complete required action">> ELSE <<>>,
         email_type |-> email_type, action_level |-> action_level, urgency |-> urgency,
         deadline |-> NoDeadline, project |-> "None",
         blocks_others |-> FALSE, decision_pending |-> FALSE]

\* user_conf of line 579; the sidebar fields are left empty
user_conf == [vip_senders |-> <<>>, priority_projects |-> <<>>, priority_instruction |-> ""]

\* A threadId cell that holds NaN
PyNaN == <<"nan", "float">>

\* Line 797: str(row.get("threadId", row.get("thread_id", ""))); PyNone is a
\* row of a table without these columns
thread_text(v) == IF v = PyNone THEN "" ELSE IF v = PyNaN THEN "nan" ELSE v[1]

\* Lines 645-752: the analysis of email e when the counter is at calls,
\* before the rewrites of lines 651-719
first_analysis(e, main_body, flags, calls, now) ==
    IF may_call_llm(calls)
    THEN llm_email_analysis_enhanced(e.llm_reply, e.subj, e.s_name \o " <" \o e.s_addr \o ">",
                                     main_body, e.imp, user_conf,
                                     flags.is_phish, flags.is_sp, now)
    ELSE heuristic_fallback(e, main_body)

\* Lines 755-798: the record appended to rows; map_to_priority is called
\* without is_phishing and is_spam, which default to False
row_of(e, main_body, a, score, flags) ==
    [date |-> e.received,
     sender |-> clean_sender_display(e.s_name, e.s_addr),
     subject |-> e.subj,
     priority |->
         map_to_priority(clean_sender_display(e.s_name, e.s_addr), e.subj, main_body,
                         dict_get(a, "email_type", "FYI"),
                         dict_get(a, "action_level", "None"),
                         dict_get(a, "decision_level", "None"),
                         dict_get(a, "urgency", "Low"),
                         dict_get(a, "blocks_others", FALSE),
                         score, e.imp, user_conf,
                         dict_get(a, "forced_priority", PyNone),
                         FALSE, FALSE),
     score |-> score,
     summary |-> dict_get(a, "summary", ""),
     tasks |-> dict_get(a, "tasks", <<>>),
     deadline |-> dict_get(a, "deadline", NoDeadline),
     is_phishing |-> flags.is_phish,
     is_spam |-> flags.is_sp,
     threadId |-> thread_text(e.threadId)]

\* One iteration of the loop of line 575 (lines 611-798), which reads row e
ProcessEmail(e) ==
    /\ pc = "run_loop"
    /\ ei <= MaxEmails
    /\ emails' = Append(emails, e)
    /\ \E flags \in {final_flags(e, llm_calls)} :
       \E calls1 \in {IF security_called(e, llm_calls) THEN llm_calls + 1 ELSE llm_calls} :
       \E main_body \in {extract_main(e.body, e.subj)} :
       \E a0 \in {first_analysis(e, main_body, flags, calls1, clock)} :
       \E a \in {IF may_call_llm(calls1)
                 THEN cc_rewrite(deadline_urgency(a0, clock \div TicksPerDay), e)
                 ELSE a0} :
       \E score \in {calculate_priority_score(a, e.imp, e.subj, clock)} :
          /\ rows' = Append(rows, row_of(e, main_body, a, score, flags))
          /\ llm_calls' = IF may_call_llm(calls1) THEN calls1 + 1 ELSE calls1
          /\ log' = Append(log, [before |-> llm_calls,
                                 after |-> IF may_call_llm(calls1) THEN calls1 + 1 ELSE calls1,
                                 by |-> IF may_call_llm(calls1) THEN "llm" ELSE "fallback"])
    /\ ei' = ei + 1
    /\ UNCHANGED <<pc, result_df, normVars, projVars, scoreVars, prioVars, simVars>>

\* Line 800: df_proc has no further row; result_df = pd.DataFrame(rows)
EndLoop ==
    /\ pc = "run_loop"
    /\ result_df' = rows
    /\ pc' = "run_dedup"
    /\ UNCHANGED <<emails, ei, llm_calls, rows, log, normVars, projVars, scoreVars, prioVars, simVars>>

\* newer for ascending=True
newer_ascending(x, y) == x.kind = "date" /\ (y.kind # "date" \/ x.day < y.day)

\* sort_values(by='dt_sort', ascending=False): does date x sort before date y;
\* pd.to_datetime(errors='coerce') turns an unreadable date into NaT, and NaT
\* sorts last
newer(x, y) == x.kind = "date" /\ (y.kind # "date" \/ x.day > y.day)

\* Lines 811-816: the rows of thread t (dropna drops none: every threadId is
\* a str) and the rows that may head the sorted group; equal dates come in
\* an order the sort does not fix
thread_group(df, t) == {i \in 1..Len(df) : df[i].threadId = t}
group_heads(df, t) ==
    {k \in thread_group(df, t) : \A j \in thread_group(df, t) : ~newer(df[j].date, df[k].date)}

\* Lines 819-830 for one row, lang = "en"
downgrade(r) ==
    [r EXCEPT !.priority = "Low",
              !.deadline = NoDeadline,
              !.tasks = <<>>,
              !.summary = IF str_contains(@, "[HISTORY") THEN @
                          ELSE "[HISTORY - See last email] " \o @]

\* Lines 803-832: in each thread of two or more rows every row behind the
\* head is downgraded
Dedup ==
    /\ pc = "run_dedup"
    /\ LET threads == {result_df[i].threadId : i \in 1..Len(result_df)} IN
       \E head \in [threads -> 1..Len(result_df)] :
          /\ \A t \in threads : head[t] \in group_heads(result_df, t)
          /\ result_df' =
                 [i \in 1..Len(result_df) |->
                     IF head[result_df[i].threadId] # i
                     THEN downgrade(result_df[i])
                     ELSE result_df[i]]
    /\ pc' = "run_done"
    /\ UNCHANGED <<emails, ei, llm_calls, rows, log, normVars, projVars, scoreVars, prioVars, simVars>>

-----------------------------------------------------------------------------
(* The batches of the analysis run                                          *)

\* Four emails; heur_phish and heur_spam are what is_phishing and is_spam of
\* security.py answer for them (lines 611-612)
WorkMail ==
    [s_name |-> "Ana Ruiz", s_addr |-> "ana@corp.example", subj |-> "Budget review",
     body |-> "See attached", heur_phish |-> FALSE, heur_spam |-> FALSE]
PhishMail ==
    [s_name |-> "Bank", s_addr |-> "alert@bank-secure.biz",
     subj |-> "Urgent: verify your account",
     body |-> "Verify your password asap or unsubscribe",
     heur_phish |-> TRUE, heur_spam |-> FALSE]
SpamMail ==
    [s_name |-> "Shop", s_addr |-> "news@shop.biz", subj |-> "Big sale today",
     body |-> "Click to unsubscribe from this newsletter",
     heur_phish |-> FALSE, heur_spam |-> TRUE]
JiraMail ==
    [s_name |-> "IT Desk", s_addr |-> "it@tools.example",
     subj |-> "Urgent: verify your account",
     body |-> "Verify your jira password asap or unsubscribe",
     heur_phish |-> TRUE, heur_spam |-> FALSE]

\* A row of df_proc with what the collaborators answer for it
Email(m, sec, reply, cc, received, thread) ==
    [s_name |-> m.s_name, s_addr |-> m.s_addr, subj |-> m.subj, body |-> m.body,
     heur_phish |-> m.heur_phish, heur_spam |-> m.heur_spam, imp |-> "normal",
     sec_reply |-> sec, llm_reply |-> reply, is_cc |-> cc, user_mentioned |-> FALSE,
     received |-> received, threadId |-> thread]

\* Answers of llm_security_analysis: {} on a failure, or its verdict
SecReplyPool ==
    {EmptyMap, [is_phishing |-> TRUE, is_spam |-> FALSE],
     [is_phishing |-> FALSE, is_spam |-> FALSE]}

\* Answers of the classifier
UrgentReply ==
    [forced_priority |-> PyNone, email_type |-> "Action_Request",
     action_level |-> "Mandatory", decision_level |-> "None",
     summary |-> "Ana asks you to sign the contract before Friday",
     actions |-> << <<"Sign the contract">> >>, deadline |-> DateDeadline(1),
     urgency |-> "Short-term", project |-> "Alpha",
     blocks_others |-> FALSE, decision_pending |-> FALSE]
QuietReply ==
    [forced_priority |-> PyNone, email_type |-> "FYI_Informational",
     action_level |-> "None", decision_level |-> "None",
     summary |-> "Monthly figures are attached, nothing is expected",
     actions |-> << <<>> >>, deadline |-> NoDeadline,
     urgency |-> "Low", project |-> "None",
     blocks_others |-> FALSE, decision_pending |-> FALSE]
RunReplyPool == {UrgentReply, QuietReply}

\* The rows of a run with flagged and trusted senders; a CC copy matters only
\* to an analysis with tasks
RunMailPool ==
    {Email(WorkMail, EmptyMap, UrgentReply, cc, DateDeadline(1), PyNone) : cc \in BOOLEAN}
    \cup {Email(WorkMail, EmptyMap, QuietReply, FALSE, DateDeadline(1), PyNone),
          Email(JiraMail, EmptyMap, UrgentReply, FALSE, DateDeadline(1), PyNone)}
    \cup {Email(PhishMail, s, d, FALSE, DateDeadline(1), PyNone) :
             s \in SecReplyPool, d \in RunReplyPool}
    \cup {Email(SpamMail, s, UrgentReply, FALSE, DateDeadline(1), PyNone) :
             s \in {EmptyMap, [is_phishing |-> FALSE, is_spam |-> FALSE]}}

\* Rows of a table with a threadId column, and of a table without
ThreadMailPool ==
    {Email(WorkMail, EmptyMap, d, FALSE, r, t) :
        d \in RunReplyPool,
        r \in {BadDeadline, DateDeadline(1), DateDeadline(2)},
        t \in {PyNaN, PyStr("t1")}}
    \cup {Email(WorkMail, EmptyMap, QuietReply, FALSE, DateDeadline(1), PyStr("t2"))}
    \cup {Email(WorkMail, EmptyMap, d, FALSE, r, PyNone) :
             d \in RunReplyPool, r \in {BadDeadline, DateDeadline(1), DateDeadline(2)}}

\* The run starts with no row read
RunInit ==
    /\ pc = "run_loop"
    /\ emails = <<>>
    /\ ei = 1 /\ llm_calls = 0 /\ rows = <<>> /\ result_df = <<>> /\ log = <<>>
    /\ NormIdle /\ ProjIdle /\ ScoreIdle /\ PrioIdle /\ SimIdle

\* The loop reads a row of the run
ReadRunEmail == \E e \in RunMailPool : ProcessEmail(e)

\* The loop reads a row of a table with threads: the rows of one table all
\* have the threadId column, or none has
ReadThreadEmail ==
    \E e \in ThreadMailPool :
        /\ emails # <<>> => ((e.threadId = PyNone) <=> (emails[1].threadId = PyNone))
        /\ ProcessEmail(e)

RunNext == ReadRunEmail \/ EndLoop \/ Dedup

ThreadsNext == ReadThreadEmail \/ EndLoop \/ Dedup

SpecRun == RunInit /\ [][RunNext]_vars

SpecThreads == RunInit /\ [][ThreadsNext]_vars

-----------------------------------------------------------------------------
(* Properties of the analysis run                                           *)

\* The run has produced its batch
run_done == pc = "run_done"

\* C23: in the batch the run produces, every record whose is_phishing or
\* is_spam field is true has priority Low.
C23_FlaggedRecordsAreLow ==
    run_done =>
        \A i \in 1..Len(result_df) :
            (result_df[i].is_phishing \/ result_df[i].is_spam)
                => result_df[i].priority = "Low"

\* The source row of record i has no threadId/thread_id value
no_thread_value(i) == emails[i].threadId \in {PyNone, PyNaN}

\* Record i holds the priority, deadline and tasks computed for it
as_computed(i) ==
    /\ result_df[i].priority = rows[i].priority
    /\ result_df[i].deadline = rows[i].deadline
    /\ result_df[i].tasks = rows[i].tasks

\* C24: thread deduplication leaves a record whose source row has no thread
\* identifier with the priority, deadline and tasks computed for it.
C24_NoThreadIdNotDowngraded ==
    run_done => \A i \in 1..Len(result_df) : no_thread_value(i) => as_computed(i)

\* Record k is the most recent of the records in G: no record of G has a
\* later date, an unreadable date counting as the oldest
most_recent(k, G) ==
    \A j \in G :
        \/ rows[j].date.kind # "date"
        \/ (rows[k].date.kind = "date" /\ rows[j].date.day <= rows[k].date.day)

\* Record j carries nothing to do: priority Low, deadline None, no tasks
downgraded(j) ==
    /\ result_df[j].priority = "Low"
    /\ result_df[j].deadline = NoDeadline
    /\ result_df[j].tasks = <<>>

\* C25: after the deduplication, in every thread id of two or more records
\* one record, a most recent one, is as computed and every other record of
\* the thread is Low with deadline None and no tasks; the record of a thread
\* of one is unchanged. Every value of the threadId column counts as an id.
C25_OneRecordPerThreadKept ==
    run_done =>
        \A t \in {rows[i].threadId : i \in 1..Len(rows)} :
            LET G == {i \in 1..Len(rows) : rows[i].threadId = t} IN
            IF Cardinality(G) >= 2
            THEN \E k \in G :
                    /\ most_recent(k, G)
                    /\ result_df[k] = rows[k]
                    /\ \A j \in G \ {k} : downgraded(j)
            ELSE \A i \in G : result_df[i] = rows[i]

\* C25 witness: thread t1 holds an older record computed High with a task
\* and a deadline, and a newer one; the older is downgraded, the newer kept
C25_Witness ==
    /\ run_done
    /\ \E j, k \in 1..Len(rows) :
          /\ emails[j].threadId = PyStr("t1") /\ emails[k].threadId = PyStr("t1")
          /\ rows[j].date = DateDeadline(1) /\ rows[k].date = DateDeadline(2)
          /\ rows[j].priority = "High" /\ rows[j].tasks # <<>>
          /\ rows[j].deadline # NoDeadline
          /\ downgraded(j)
          /\ result_df[k] = rows[k] /\ rows[k].priority = "High"

\* C28: the counter of classifier calls never exceeds MAX_LLM_CALLS, and an
\* email met with the counter at MAX_LLM_CALLS is analysed by the heuristic
\* fallback and leaves the counter as it was.
C28_LlmCallsCapped ==
    /\ llm_calls <= MAX_LLM_CALLS
    /\ \A k \in 1..Len(log) :
          /\ log[k].after <= MAX_LLM_CALLS
          /\ log[k].before >= MAX_LLM_CALLS =>
                (log[k].after = log[k].before /\ log[k].by = "fallback")

\* C28 witness: a flagged email takes the counter from 2 to MAX_LLM_CALLS,
\* and the next email is analysed by the fallback
C28_Witness ==
    /\ llm_calls = MAX_LLM_CALLS
    /\ \E k \in 2..Len(log) :
          /\ log[k - 1].after = MAX_LLM_CALLS /\ log[k - 1].by = "llm"
          /\ log[k].before = MAX_LLM_CALLS /\ log[k].by = "fallback"
          /\ rows[k].summary = "Email from Ana: Budget review"

-----------------------------------------------------------------------------
(* One call of llm_email_analysis_enhanced                                  *)

\* What the classifier may answer: actions null, [] or a task; a project
\* named as in the VIP list, around it, "None", "" or another one
LlmDataPool ==
    [forced_priority : {PyNone, PyStr("Low"), PyStr("Medium")},
     email_type : {"FYI_Informational"},
     action_level : {"None", "Mandatory"},
     decision_level : {"None"},
     summary : {"Monthly figures are attached, nothing is expected"},
     actions : {<<>>, << <<>> >>, << <<"Sign the contract">> >>},
     deadline : {NoDeadline},
     urgency : {"Low"},
     project : {"Alpha", "Project Alpha rollout", "Beta", "None", ""},
     blocks_others : {FALSE},
     decision_pending : {FALSE}]

LlmConfigPool ==
    {[vip_senders |-> <<>>, priority_projects |-> pp] :
        pp \in {<<>>, <<"", " alpha ">>, <<"ALPHA core">>}}

LlmInit ==
    /\ pc = "llm_start"
    /\ PrioIdle
    /\ NormIdle /\ ProjIdle /\ ScoreIdle /\ SimIdle /\ MainIdle

\* analysis = llm_email_analysis_enhanced(...), the classifier answering data
LlmAnalyse ==
    /\ pc = "llm_start"
    /\ \E data \in LlmDataPool, conf \in LlmConfigPool, phish \in BOOLEAN, spam \in BOOLEAN :
       \E result \in {llm_email_analysis_enhanced(data, WorkMail.subj, "Ana Ruiz <ana@corp.example>",
                                                 WorkMail.body, "normal", conf, phish, spam, clock)} :
          /\ call' = [data |-> data, user_config |-> conf, is_phishing |-> phish,
                      is_spam |-> spam, result |-> result]
          /\ priority' = result.priority
    /\ pc' = "llm_done"
    /\ UNCHANGED <<normVars, projVars, scoreVars, simVars, mainVars>>

LlmNext == LlmAnalyse

SpecLlm == LlmInit /\ [][LlmNext]_vars

\* The project the classifier named is non-empty, not "none", and contains
\* or is contained in, case-insensitively, a non-blank entry of
\* priority_projects
vip_project_named ==
    LET project == str_lower(str_strip(call.data.project))
        entries == call.user_config.priority_projects
    IN  /\ project # "" /\ project # "none"
        /\ \E i \in 1..Len(entries) :
              LET entry == str_lower(str_strip(entries[i])) IN
              /\ entry # ""
              /\ str_contains(project, entry) \/ str_contains(entry, project)

\* C30: when the classifier names a VIP project and neither security flag is
\* set, llm_email_analysis_enhanced returns priority High, whatever
\* forced_priority the classifier returned.
C30_VipProjectGivesHigh ==
    (/\ pc = "llm_done"
     /\ vip_project_named
     /\ ~call.is_phishing /\ ~call.is_spam)
    => priority = "High"

-----------------------------------------------------------------------------
(* Batches of names that share keys                                         *)

\* Names with the key "qa" written as an abbreviation and not, a longer name
\* that starts with it, and names with prefix, tail token and null spelling
KeyNamePool ==
    { PyStr("QAteam"), PyStr("Proyecto QA"), PyStr("Proyecto qa"), PyStr("QA"),
      PyStr("qa"), PyStr("Proj Beta"), PyStr("Alpha Implementation"), PyStr(" NaN ") }

KeysInit ==
    /\ pc = "proj_start"
    /\ project_values \in UNION {[1..n -> KeyNamePool] : n \in 0..MaxBatch}
    /\ counts = EmptyMap
    /\ uniques = <<>>
    /\ clusters = <<>>
    /\ ui = 1
    /\ ci = 1
    /\ mapping = EmptyMap
    /\ pass = 1
    /\ prev_map = EmptyMap
    /\ NormIdle /\ ScoreIdle /\ PrioIdle /\ SimIdle /\ MainIdle

SpecKeys == KeysInit /\ [][ProjNext]_vars

\* C26: two raw names with the same normalized key receive the same
\* canonical label from build_project_canonical_map.
C26_SameKeySameLabel ==
    map_built =>
        \A x, y \in DOMAIN mapping :
            _proj_norm_key(x) = _proj_norm_key(y) => mapping[x] = mapping[y]

-----------------------------------------------------------------------------
(* The copy of the unification in email_processing.py (lines 329-491)       *)

\* Line 329: how many characters _PROJECT_PREFIX_RE matches at the start of
\* s, 0 for no match; the word, re.I, and the whitespace behind it
ep_PROJECT_PREFIX_RE_len(s) ==
    LET words == <<"proyecto", "project", "proj.", "proj", "proy.", "proy">>
        fits(w) == /\ Len(s) > Len(w)
                   /\ str_lower(SubSeq(s, 1, Len(w))) = w
                   /\ IsSpace(CharAt(s, Len(w) + 1))
        hits == {k \in 1..Len(words) : fits(words[k])}
        w == words[CHOOSE k \in hits : \A j \in hits : k <= j]
    IN  IF hits = {} THEN 0
        ELSE Len(s) - Len(str_lstrip(SubSeq(s, Len(w) + 1, Len(s))))

ep_GENERIC_TAIL_TOKENS == {"implementation", "implementacion", "impl"}
ep_GENERIC_HEAD_TOKENS == {"implementation", "implementacion", "impl"}
ep_PROJECT_STOPWORDS == {"de", "del", "la", "el", "los", "las", "of", "the", "and", "y"}

\* Lines 335-343
ep_strip_generic_head_tokens(norm_key) ==
    LET RECURSIVE stops(_)
        stops(toks) == IF toks # <<>> /\ toks[1] \in ep_PROJECT_STOPWORDS
                       THEN stops(Tail(toks)) ELSE toks
        RECURSIVE heads(_)
        heads(toks) == IF toks # <<>> /\ toks[1] \in ep_GENERIC_HEAD_TOKENS
                       THEN heads(stops(Tail(toks))) ELSE toks
    IN  IF norm_key = "" THEN "" ELSE str_strip(str_join(heads(str_split(norm_key))))

\* Lines 346-352
ep_strip_generic_tail_tokens(norm_key) ==
    LET RECURSIVE tails(_)
        tails(toks) == IF toks # <<>> /\ toks[Len(toks)] \in ep_GENERIC_TAIL_TOKENS
                       THEN tails(SubSeq(toks, 1, Len(toks) - 1)) ELSE toks
    IN  IF norm_key = "" THEN "" ELSE str_strip(str_join(tails(str_split(norm_key))))

\* Lines 355-368
ep_proj_norm_key_raw(s0) ==
    LET s1 == str_strip(s0)
        s2 == str_strip(SubSeq(s1, ep_PROJECT_PREFIX_RE_len(s1) + 1, Len(s1)))
    IN  IF s1 = "" THEN ""
        ELSE str_strip(sub_spaces(sub_non_alnum(nfkd_fold(str_lower(s2)), FALSE), FALSE))

\* Lines 371-374
ep_proj_norm_key(s) ==
    ep_strip_generic_tail_tokens(ep_strip_generic_head_tokens(ep_proj_norm_key_raw(s)))

\* Lines 377-385
ep_proj_display_name(s0) ==
    LET s1 == str_strip(s0) IN
    IF s1 = "" THEN ""
    ELSE str_strip(sub_spaces(str_strip(SubSeq(s1, ep_PROJECT_PREFIX_RE_len(s1) + 1, Len(s1))),
                              FALSE))

\* Lines 388-390
ep_is_abbrev_orig(orig) ==
    LET disp == ep_proj_display_name(orig) IN
    disp # "" /\ str_isalpha(disp) /\ str_isupper(disp) /\ Len(disp) >= 1 /\ Len(disp) <= 3

\* ep_projects_similar without the abbreviation rules of lines 418-430
ep_projects_similar_no_abbrev(a_key, b_key, a_orig, b_orig) ==
    /\ a_key # "" /\ b_key # ""
    /\ \/ a_key = b_key
       \/ ratio_ge(a_key, b_key, 88)
       \/ /\ str_contains(b_key, a_key) \/ str_contains(a_key, b_key)
          /\ Min2(Len(a_key), Len(b_key)) >= 4
       \/ /\ Max2(Len(a_key), Len(b_key)) <= 12
          /\ str_prefix(a_key, 3) = str_prefix(b_key, 3)
          /\ ratio_ge(a_key, b_key, 80)

\* Lines 393-432
ep_projects_similar(a_key, b_key, a_orig, b_orig) ==
    LET abbrev(x, y) ==
            \/ str_startswith(y, x \o " ")
            \/ (str_startswith(y, x) /\ str_isalpha(y) /\ Len(y) >= 4)
            \/ (str_split(y) # <<>> /\ str_split(y)[1] = x /\ Len(x) <= 4)
    IN  /\ a_key # "" /\ b_key # ""
        /\ \/ a_key = b_key
           \/ ratio_ge(a_key, b_key, 88)
           \/ /\ str_contains(b_key, a_key) \/ str_contains(a_key, b_key)
              /\ Min2(Len(a_key), Len(b_key)) >= 4
           \/ /\ Max2(Len(a_key), Len(b_key)) <= 12
              /\ str_prefix(a_key, 3) = str_prefix(b_key, 3)
              /\ ratio_ge(a_key, b_key, 80)
           \/ (ep_is_abbrev_orig(a_orig) /\ Len(a_key) <= 3 /\ abbrev(a_key, b_key))
           \/ (ep_is_abbrev_orig(b_orig) /\ Len(b_key) <= 3 /\ abbrev(b_key, a_key))

\* Lines 435-491
ep_build_project_canonical_map(values) ==
    LET null_like(s) == s = "" \/ str_lower(s) \in {"none", "nan", "null"}
        kept == SelectSeq(values, LAMBDA v : v # PyNone /\ ~null_like(str_strip(v[1])))
        names == [i \in 1..Len(kept) |-> str_strip(kept[i][1])]
        cnt == [x \in {names[i] : i \in 1..Len(names)} |->
                   Cardinality({i \in 1..Len(names) : names[i] = x})]
        \* the keys of counts in the order they were inserted
        RECURSIVE keys(_)
        keys(n) == IF n = 0 THEN <<>>
                   ELSE IF \E i \in 1..(n - 1) : names[i] = names[n] THEN keys(n - 1)
                   ELSE Append(keys(n - 1), names[n])
        before(x, y) == cnt[x] > cnt[y] \/ (cnt[x] = cnt[y] /\ Len(x) < Len(y))
        \* sorted(..., key=lambda x: (-counts[x], len(x))), a stable sort
        RECURSIVE put(_, _)
        put(srt, x) == IF srt = <<>> THEN <<x>>
                       ELSE IF before(x, srt[1]) THEN <<x>> \o srt
                       ELSE <<srt[1]>> \o put(Tail(srt), x)
        RECURSIVE sorted(_)
        sorted(ks) == IF ks = <<>> THEN <<>>
                      ELSE put(sorted(SubSeq(ks, 1, Len(ks) - 1)), ks[Len(ks)])
        uniq == sorted(keys(Len(names)))
        place(cls, orig) ==
            LET key == ep_proj_norm_key(orig)
                sim == {c \in 1..Len(cls) :
                           ep_projects_similar(key, cls[c].key, orig, cls[c].repr)}
            IN  IF key = "" THEN cls
                ELSE IF sim # {}
                     THEN [cls EXCEPT ![CHOOSE c \in sim : \A d \in sim : c <= d].members =
                                          Append(@, orig)]
                ELSE Append(cls, [key |-> key, members |-> <<orig>>, repr |-> orig])
        RECURSIVE cluster(_)
        cluster(n) == IF n = 0 THEN <<>> ELSE place(cluster(n - 1), uniq[n])
        cand_score(cand) ==
            LET disp == ep_proj_display_name(cand)
                raw_key == ep_proj_norm_key_raw(cand)
                stripped_key == ep_strip_generic_tail_tokens(raw_key)
            IN  cnt[cand] * 100
                - (IF ep_PROJECT_PREFIX_RE_len(str_strip(cand)) > 0 THEN 20 ELSE 0)
                - (IF raw_key # "" /\ stripped_key # "" /\ raw_key # stripped_key
                   THEN 25 ELSE 0)
                - (IF disp # "" THEN Len(disp) ELSE Len(cand))
        canon_of(members) ==
            LET b == CHOOSE i \in 1..Len(members) :
                        /\ \A j \in 1..Len(members) :
                               cand_score(members[j]) <= cand_score(members[i])
                        /\ \A j \in 1..(i - 1) :
                               cand_score(members[j]) < cand_score(members[i])
                canon == IF ep_proj_display_name(members[b]) # ""
                         THEN ep_proj_display_name(members[b])
                         ELSE str_strip(members[b])
            IN  IF str_islower(canon) THEN str_capitalize(canon) ELSE canon
        clusters_built == cluster(Len(uniq))
        cluster_of(x) == CHOOSE c \in 1..Len(clusters_built) :
                            \E i \in 1..Len(clusters_built[c].members) :
                                clusters_built[c].members[i] = x
    IN  [x \in {n \in DOMAIN cnt : \E c \in 1..Len(clusters_built) :
                    \E i \in 1..Len(clusters_built[c].members) :
                        clusters_built[c].members[i] = n}
            |-> canon_of(clusters_built[cluster_of(x)].members)]

\* C29: both copies of build_project_canonical_map return the same map for
\* every list of raw names.
C29_CopiesReturnSameMap ==
    map_built => ep_build_project_canonical_map(project_values) = mapping

\* C29 witness: both copies put the abbreviation behind the prefix with the
\* longer name and leave its lower-case spelling apart
C29_Witness ==
    /\ map_built
    /\ project_values = <<PyStr("QAteam"), PyStr("Proyecto QA"), PyStr("Proyecto qa")>>
    /\ mapping["Proyecto QA"] = "QAteam" /\ mapping["Proyecto qa"] = "Qa"
    /\ ep_build_project_canonical_map(project_values) = mapping

====
